---- MODULE Spec2Model ----
(***************************************************************************)
(* A model of the AI sales agent backend: the session / cart store         *)
(* (backend/services/context_manager.py), the keyword intent classifier    *)
(* (backend/agents/sales_agent.py), the channel adapters                   *)
(* (backend/services/channel_adapters.py), the payment agent               *)
(* (backend/agents/payment_agent.py), the orchestrator of a conversation   *)
(* turn (backend/agents/orchestrator.py) and the ranking of                *)
(* recommendations (backend/agents/recommendation_agent.py).               *)
(*                                                                         *)
(* The session store is a table of ChatSession rows keyed by session_id.   *)
(* Every ContextManager operation opens its own database session, so an    *)
(* operation that calls get_session and later update_session performs two  *)
(* separate transactions; callers of different requests may interleave     *)
(* between them.  Each caller is modelled by a record holding its position *)
(* (pc), the operation and arguments, its local variables and its result.  *)
(***************************************************************************)
EXTENDS Integers, Sequences, FiniteSets, TLC

VARIABLES
    sessions,   \* chat_sessions table: session_id -> row
    products,   \* products table: product id -> price in mills (1/1000)
    now,        \* the wall clock read by datetime.now()
    calls,      \* per caller: the request in progress
    message,    \* the customer message of the turn
    intent,     \* the intent the classifier gave it
    ai_response, \* the response dict handed to a channel adapter
    formatted,  \* per channel name: what format_message returned for it
    customers,  \* customers table: customer id -> row
    checkout,   \* the PaymentAgent call in progress
    turn,       \* the OrchestratorAgent conversation turn in progress
    smart       \* the RecommendationAgent ranking call in progress

storeVars == <<sessions, products, now, calls>>
formatVars == <<ai_response, formatted>>
paymentVars == <<customers, checkout>>
orchestratorVars == <<turn>>
recommendationVars == <<smart>>
turnVars == <<message, intent, formatVars, paymentVars, orchestratorVars,
              recommendationVars>>
vars == <<sessions, products, now, calls, message, intent, ai_response, formatted,
          customers, checkout, turn, smart>>

\* no response has been handed to a channel adapter
NoFormat == ai_response = <<>> /\ formatted = <<>>

\* no conversation turn is in progress.  pc is the position in
\* handle_conversation / execute, context the dict handle_conversation
\* builds, sales_response what SalesAgent.execute returned, worker_results
\* the dict the intent handler fills, invoked the workers called so far in
\* call order, failed the step that raised, response what execute returned,
\* result what the outermost function returned to its caller and reply the
\* text _call_ai returned to the sales agent
IdleTurn ==
    [pc |-> "idle", context |-> <<>>, reply |-> <<>>, sales_response |-> <<>>,
     stage |-> 0, worker_results |-> <<>>, invoked |-> <<>>, failed |-> "none",
     response |-> <<>>, channel |-> "none", result |-> <<>>]

\* no call of _generate_smart_recommendations is in progress.  products is
\* the list of product ids it was called with, text what _call_ai returned
\* to it, result the list it returned
IdleSmart == [pc |-> "idle", products |-> <<>>, text |-> <<>>, result |-> <<>>]

NoTurn == turn = IdleTurn /\ smart = IdleSmart

---------------------------------------------------------------------------
(* Bounds of the model *)

\* the largest quantity a cart line may reach (caps the quantity counter)
MaxQty == 5
\* the largest quantity argument of add_to_cart and update_cart_quantity
MaxAdd == 3
\* the clock stops at this value
MaxClock == 1
\* the same caps where two requests run concurrently
RaceQty == 2
RaceAdd == 2
\* the longest conversation history a session row holds
MaxMessages == 2
\* the longest recommendation list handed to a channel adapter
MaxRecs == 10
\* the number of orders PaymentAgent creates
MaxOrders == 1

\* requests in flight at the same time
Callers == {"c1", "c2"}
\* values of f"session-{uuid.uuid4().hex[:12]}" that create_session draws
FreshTokens == {"session-a"}
\* session ids a client may pass: any string, those of existing rows or not
Tokens == FreshTokens \cup {"session-x"}
\* channel names a client may pass: the route accepts any string
ChannelArgs == {"web", "whatsapp"}
\* customer_id arguments (0 stands for None)
CustomerArgs == {0, 7}

\* what the requests of one specification may ask for; product 4 has no
\* row in the products table
SeqInputs ==
    [pids |-> {1, 4}, adds |-> 1..MaxAdd, sets |-> (-1)..MaxAdd, cap |-> MaxQty,
     channels |-> ChannelArgs, customers |-> CustomerArgs]
RaceInputs ==
    [pids |-> {1, 2}, adds |-> 1..RaceAdd, sets |-> {0, RaceAdd}, cap |-> RaceQty,
     channels |-> {"web"}, customers |-> {0}]
\* the life of one session: any channel string is accepted by the routes, so
\* "sms" stands for a name outside web / whatsapp / instore / mobile
LifeInputs ==
    [pids |-> {1}, adds |-> 1..RaceAdd, sets |-> (-1)..RaceAdd, cap |-> RaceQty,
     channels |-> {"web", "instore", "sms"}, customers |-> CustomerArgs]

---------------------------------------------------------------------------
(* Pure helpers: list operations of the cart code *)

RECURSIVE SumSeq(_)
SumSeq(s) == IF s = <<>> THEN 0 ELSE Head(s) + SumSeq(Tail(s))

\* sum(item["quantity"] for item in cart)
TotalItems(cart) == SumSeq([i \in 1..Len(cart) |-> cart[i].quantity])

\* next((item for item in cart if item["product_id"] == product_id), None),
\* as the index of that item (0 for None)
FirstIndexOf(cart, product_id) ==
    LET hits == {i \in 1..Len(cart) : cart[i].product_id = product_id}
    IN IF hits = {} THEN 0 ELSE CHOOSE i \in hits : \A j \in hits : i <= j

\* list.remove(x): delete the first element equal to x
ListRemove(cart, x) ==
    LET hits == {i \in 1..Len(cart) : cart[i] = x}
        k == CHOOSE i \in hits : \A j \in hits : i <= j
    IN IF hits = {} THEN cart
       ELSE [i \in 1..(Len(cart) - 1) |-> IF i < k THEN cart[i] ELSE cart[i + 1]]

\* add_to_cart without the lookup of an existing line
AddToCartLines_AlwaysAppend(cart, product_id, quantity, t) ==
    Append(cart, [product_id |-> product_id, quantity |-> quantity, added_at |-> t])

\* add_to_cart assigning the quantity of an existing line instead of adding to it
AddToCartLines_Assign(cart, product_id, quantity, t) ==
    LET i == FirstIndexOf(cart, product_id)
    IN IF i # 0
       THEN [cart EXCEPT ![i].quantity = quantity]
       ELSE Append(cart, [product_id |-> product_id,
                          quantity |-> quantity,
                          added_at |-> t])

\* the cart computed by add_to_cart from the cart it read
AddToCartLines(cart, product_id, quantity, t) ==
    LET i == FirstIndexOf(cart, product_id)
    IN IF i # 0
       THEN [cart EXCEPT ![i].quantity = @ + quantity]
       ELSE Append(cart, [product_id |-> product_id,
                          quantity |-> quantity,
                          added_at |-> t])

\* remove_from_cart cutting the list at the matching line
RemoveFromCartLines_Truncate(cart, product_id) ==
    LET i == FirstIndexOf(cart, product_id)
    IN IF i = 0 THEN cart ELSE SubSeq(cart, 1, i - 1)

\* the cart computed by remove_from_cart from the cart it read
RemoveFromCartLines(cart, product_id) ==
    SelectSeq(cart, LAMBDA item : item.product_id # product_id)

\* update_cart_quantity removing the line only below zero
UpdateQuantityLines_Negative(cart, product_id, quantity) ==
    LET i == FirstIndexOf(cart, product_id)
    IN IF i = 0 THEN cart
       ELSE IF quantity < 0 THEN ListRemove(cart, cart[i])
       ELSE [cart EXCEPT ![i].quantity = quantity]

\* update_cart_quantity assigning the quantity whatever its sign
UpdateQuantityLines_NoRemove(cart, product_id, quantity) ==
    LET i == FirstIndexOf(cart, product_id)
    IN IF i = 0 THEN cart
       ELSE [cart EXCEPT ![i].quantity = quantity]

\* the cart computed by update_cart_quantity from the cart it read
UpdateQuantityLines(cart, product_id, quantity) ==
    LET i == FirstIndexOf(cart, product_id)
    IN IF i = 0 THEN cart
       ELSE IF quantity <= 0 THEN ListRemove(cart, cart[i])
       ELSE [cart EXCEPT ![i].quantity = quantity]

\* the payload returned by the three cart mutations
CartPayload(success, cart) ==
    [success |-> success,
     cart |-> cart,
     cart_count |-> Len(cart),
     total_items |-> TotalItems(cart)]

NotFoundPayload == [success |-> FALSE, message |-> "Session not found"]

\* the loop of get_cart: one priced entry per cart line whose product row
\* exists, in cart order (name, brand and image are copied from the row and
\* are left out); prices are in mills
RECURSIVE CartWithDetails(_, _)
CartWithDetails(cart, store) ==
    IF cart = <<>> THEN <<>>
    ELSE LET item == Head(cart)
             rest == CartWithDetails(Tail(cart), store)
         IN IF item.product_id \in DOMAIN store
            THEN <<[product_id |-> item.product_id,
                    price |-> store[item.product_id],
                    quantity |-> item.quantity,
                    subtotal |-> store[item.product_id] * item.quantity]>> \o rest
            ELSE rest

\* sum(item["subtotal"] for item in cart_with_details)
DetailsTotal(details) == SumSeq([i \in 1..Len(details) |-> details[i].subtotal])

\* round(total, 2) on a float: the nearest multiple of 0.01 (10 mills).  A
\* decimal tie is decided by the binary value of the float, which may lie
\* on either side, so both neighbours are possible results.
Round2(total) ==
    IF total % 10 = 5 THEN {total - 5, total + 5}
    ELSE {((total + 5) \div 10) * 10}

\* get_cart returning the total as it was summed, without round(total, 2)
GetCartPayloads_Unrounded(cart, store) ==
    IF cart # <<>>
    THEN LET cart_with_details == CartWithDetails(cart, store)
         IN {[success |-> TRUE,
              cart |-> cart_with_details,
              cart_count |-> Len(cart_with_details),
              total_items |-> TotalItems(cart_with_details),
              subtotal |-> DetailsTotal(cart_with_details)]}
    ELSE {[success |-> TRUE, cart |-> <<>>, cart_count |-> 0,
           total_items |-> 0, subtotal |-> 0]}

\* the payloads get_cart may return for the cart it read
GetCartPayloads(cart, store) ==
    IF cart # <<>>
    THEN LET cart_with_details == CartWithDetails(cart, store)
         IN {[success |-> TRUE,
              cart |-> cart_with_details,
              cart_count |-> Len(cart_with_details),
              total_items |-> TotalItems(cart_with_details),
              subtotal |-> subtotal] :
                 subtotal \in Round2(DetailsTotal(cart_with_details))}
    ELSE {[success |-> TRUE, cart |-> <<>>, cart_count |-> 0,
           total_items |-> 0, subtotal |-> 0]}

---------------------------------------------------------------------------
(* The keyword intent classifier, SalesAgent._detect_intent.  A message is *)
(* a sequence of characters (one-character strings).                       *)

\* sales_agent.py line 98
CartKeywords ==
    <<<<"c", "a", "r", "t">>,
      <<"b", "a", "s", "k", "e", "t">>,
      <<"b", "a", "g">>,
      <<"w", "h", "a", "t", " ", "d", "i", "d", " ", "i", " ", "a", "d", "d">>,
      <<"s", "h", "o", "w", " ", "c", "a", "r", "t">>,
      <<"v", "i", "e", "w", " ", "c", "a", "r", "t">>,
      <<"m", "y", " ", "i", "t", "e", "m", "s">>>>

\* the purchase keywords without "order"
PurchaseKeywords_NoOrder ==
    <<<<"b", "u", "y">>,
      <<"p", "u", "r", "c", "h", "a", "s", "e">>,
      <<"c", "h", "e", "c", "k", "o", "u", "t">>>>

\* sales_agent.py line 102
PurchaseKeywords ==
    <<<<"b", "u", "y">>,
      <<"p", "u", "r", "c", "h", "a", "s", "e">>,
      <<"c", "h", "e", "c", "k", "o", "u", "t">>,
      <<"o", "r", "d", "e", "r">>>>

\* sales_agent.py line 106
BrowsingKeywords ==
    <<<<"l", "o", "o", "k", "i", "n", "g">>,
      <<"b", "r", "o", "w", "s", "e">>,
      <<"s", "h", "o", "w">>,
      <<"f", "i", "n", "d">>,
      <<"s", "e", "a", "r", "c", "h">>,
      <<"n", "e", "e", "d">>>>

\* sales_agent.py line 110
HelpKeywords ==
    <<<<"h", "e", "l", "p">>,
      <<"q", "u", "e", "s", "t", "i", "o", "n">>,
      <<"h", "o", "w">>,
      <<"w", "h", "a", "t">>,
      <<"w", "h", "e", "r", "e">>,
      <<"w", "h", "e", "n">>,
      <<"a", "v", "a", "i", "l", "a", "b", "l", "e">>,
      <<"s", "t", "o", "c", "k">>>>

\* sales_agent.py line 114
GreetingKeywords ==
    <<<<"h", "i">>,
      <<"h", "e", "l", "l", "o">>,
      <<"h", "e", "y">>,
      <<"g", "o", "o", "d", " ", "m", "o", "r", "n", "i", "n", "g">>,
      <<"g", "o", "o", "d", " ", "a", "f", "t", "e", "r", "n", "o", "o", "n">>>>

\* sales_agent.py line 118
ComplaintKeywords ==
    <<<<"p", "r", "o", "b", "l", "e", "m">>,
      <<"i", "s", "s", "u", "e">>,
      <<"w", "r", "o", "n", "g">>,
      <<"b", "r", "o", "k", "e", "n">>,
      <<"r", "e", "t", "u", "r", "n">>,
      <<"r", "e", "f", "u", "n", "d">>>>

\* str.lower() on the letters the messages are written with
Lower(c) ==
    CASE c = "A" -> "a" [] c = "B" -> "b" [] c = "C" -> "c" [] c = "D" -> "d"
      [] c = "E" -> "e" [] c = "F" -> "f" [] c = "G" -> "g" [] c = "H" -> "h"
      [] c = "I" -> "i" [] c = "J" -> "j" [] c = "K" -> "k" [] c = "L" -> "l"
      [] c = "M" -> "m" [] c = "N" -> "n" [] c = "O" -> "o" [] c = "P" -> "p"
      [] c = "Q" -> "q" [] c = "R" -> "r" [] c = "S" -> "s" [] c = "T" -> "t"
      [] c = "U" -> "u" [] c = "V" -> "v" [] c = "W" -> "w" [] c = "X" -> "x"
      [] c = "Y" -> "y" [] c = "Z" -> "z" [] OTHER -> c

\* message.lower()
LowerStr(text) == [i \in 1..Len(text) |-> Lower(text[i])]

\* `word in text`: word occurs as a contiguous substring of text
Contains(text, word) ==
    \E k \in 0..(Len(text) - Len(word)) : SubSeq(text, k + 1, k + Len(word)) = word

\* any(word in text for word in words)
AnyIn(text, words) == \E i \in 1..Len(words) : Contains(text, words[i])

\* the purchase keywords tested before the cart keywords
detect_intent_PurchaseFirst(text) ==
    LET message_lower == LowerStr(text)
    IN IF AnyIn(message_lower, PurchaseKeywords) THEN "purchase_intent"
       ELSE IF AnyIn(message_lower, CartKeywords) THEN "view_cart"
       ELSE IF AnyIn(message_lower, BrowsingKeywords) THEN "browsing"
       ELSE IF AnyIn(message_lower, HelpKeywords) THEN "needs_help"
       ELSE IF AnyIn(message_lower, GreetingKeywords) THEN "greeting"
       ELSE IF AnyIn(message_lower, ComplaintKeywords) THEN "complaint"
       ELSE "general"

\* SalesAgent._detect_intent
detect_intent(text) ==
    LET message_lower == LowerStr(text)
    IN IF AnyIn(message_lower, CartKeywords) THEN "view_cart"
       ELSE IF AnyIn(message_lower, PurchaseKeywords) THEN "purchase_intent"
       ELSE IF AnyIn(message_lower, BrowsingKeywords) THEN "browsing"
       ELSE IF AnyIn(message_lower, HelpKeywords) THEN "needs_help"
       ELSE IF AnyIn(message_lower, GreetingKeywords) THEN "greeting"
       ELSE IF AnyIn(message_lower, ComplaintKeywords) THEN "complaint"
       ELSE "general"

\* pieces of text the customer messages are put together from
Fragments ==
    {<<"C", "a", "r", "t">>,
     <<"B", "U", "Y">>,
     <<"S", "h", "o", "w">>,
     <<"h", "e", "l", "p">>,
     <<"h", "i">>,
     <<"r", "e", "f", "u", "n", "d">>,
     <<"n", "e", "e", "d">>,
     <<"o", "r", "d", "e", "r">>,
     <<"t">>,
     <<"s">>,
     <<"h", "o", "w">>,
     <<" ">>,
     <<"x", "y", "z">>,
     <<"W", "h", "a", "t", "'", "s", " ", "m", "y", " ", "o", "r", "d", "e", "r", " ", "s", "t", "a", "t", "u", "s", ",", " ", "I", " ", "n", "e", "e", "d", " ", "h", "e", "l", "p">>}

\* a message is at most this many pieces long
MaxFragments == 2

RECURSIVE Concat(_)
Concat(parts) == IF parts = <<>> THEN <<>> ELSE Head(parts) \o Concat(Tail(parts))

Messages ==
    {Concat(parts) : parts \in UNION {[1..n -> Fragments] : n \in 0..MaxFragments}}

---------------------------------------------------------------------------
(* The channel adapters, services/channel_adapters.py.  A dict is a        *)
(* function on its keys, a list a sequence and a text a sequence of        *)
(* characters.                                                             *)

\* Python's None
None == "None"

\* d.get(key, default)
Get(d, key, default) == IF key \in DOMAIN d THEN d[key] ELSE default

\* `if d.get(key):` where the key holds a list
HasList(d, key) == key \in DOMAIN d /\ Len(d[key]) > 0

\* `if d.get(key):` where the key holds a dict
HasDict(d, key) == key \in DOMAIN d /\ DOMAIN d[key] # {}

\* list[:n]
Take(list, n) == SubSeq(list, 1, IF Len(list) < n THEN Len(list) ELSE n)

\* a dict with the key only if the condition holds
Opt(cond, d) == IF cond THEN d ELSE <<>>

\* BaseChannelAdapter._truncate_text
truncate_text(text, max_length) ==
    IF Len(text) <= max_length THEN text
    ELSE SubSeq(text, 1, max_length - 3) \o <<".", ".", ".">>

\* the web product cards without the limit of 6
WebFormatRecommendations_NoLimit(recommendations) ==
    [i \in 1..Len(recommendations) |->
        LET rec == recommendations[i] IN
        [product_id |-> Get(rec, "product_id", None),
         image |-> Get(rec, "image", "/placeholder.jpg"),
         name |-> Get(rec, "name", None),
         brand |-> Get(rec, "brand", None),
         price |-> Get(rec, "price", None),
         original_price |-> Get(rec, "original_price", None),
         rating |-> Get(rec, "rating", None),
         reason |-> truncate_text(Get(rec, "reason", <<>>), 100),
         in_stock |-> Get(rec, "in_stock", TRUE),
         actions |-> <<[type |-> "view_details", label |-> "View Details"],
                       [type |-> "add_to_cart", label |-> "Add to Cart"]>>]]

\* WebChatAdapter.format_recommendations: one product card for each of the
\* first 6 recommendations
WebFormatRecommendations(recommendations) ==
    LET shown == Take(recommendations, 6) IN
    [i \in 1..Len(shown) |->
        LET rec == shown[i] IN
        [product_id |-> Get(rec, "product_id", None),
         image |-> Get(rec, "image", "/placeholder.jpg"),
         name |-> Get(rec, "name", None),
         brand |-> Get(rec, "brand", None),
         price |-> Get(rec, "price", None),
         original_price |-> Get(rec, "original_price", None),
         rating |-> Get(rec, "rating", None),
         reason |-> truncate_text(Get(rec, "reason", <<>>), 100),
         in_stock |-> Get(rec, "in_stock", TRUE),
         actions |-> <<[type |-> "view_details", label |-> "View Details"],
                       [type |-> "add_to_cart", label |-> "Add to Cart"]>>]]

\* WebChatAdapter.format_cart
WebFormatCart(cart_data) ==
    [items |-> Get(cart_data, "cart", <<>>),
     count |-> Get(cart_data, "cart_count", 0),
     subtotal |-> Get(cart_data, "subtotal", 0),
     actions |-> <<[type |-> "view_cart", label |-> "View Cart"],
                   [type |-> "checkout", label |-> "Checkout"]>>]

\* WebChatAdapter.format_message
WebFormatMessage(r) ==
    [type |-> "chat_message",
     channel |-> "web",
     message |-> Get(r, "message", <<>>),
     timestamp |-> Get(r, "timestamp", None),
     intent |-> Get(r, "intent", None)]
    @@ Opt(HasList(r, "suggestions"),
           [quick_replies |->
              LET shown == Take(Get(r, "suggestions", <<>>), 4) IN
              [i \in 1..Len(shown) |->
                 [type |-> "button", text |-> shown[i],
                  action |-> "send_message", payload |-> shown[i]]]])
    @@ Opt(HasList(r, "recommendations"),
           [product_cards |-> WebFormatRecommendations(Get(r, "recommendations", <<>>))])
    @@ Opt(HasDict(r, "cart"),
           [cart_widget |-> WebFormatCart(Get(r, "cart", <<>>))])
    @@ Opt(HasDict(r, "loyalty_info"),
           [loyalty_badge |->
              [tier |-> Get(Get(r, "loyalty_info", <<>>), "tier", None),
               points |-> Get(Get(r, "loyalty_info", <<>>), "points", None)]])
    @@ Opt(HasList(r, "actions"),
           [action_buttons |->
              LET actions == Get(r, "actions", <<>>) IN
              [i \in 1..Len(actions) |->
                 [type |-> Get(actions[i], "type", None),
                  label |-> Get(actions[i], "label", None),
                  description |-> Get(actions[i], "description", None)]]])

\* WhatsAppAdapter.format_message: the class defines the method twice and
\* the later definition (lines 243-297) is the one the class keeps.  The
\* text is "".join(message_parts); it is kept as the list of its parts,
\* each part holding the values that are formatted into it.
WhatsAppFormatMessage(r) ==
    LET recs == Take(Get(r, "recommendations", <<>>), 3)
        loyalty == Get(r, "loyalty_info", <<>>)
        cart == Get(r, "cart", <<>>)
        suggestions == Take(Get(r, "suggestions", <<>>), 3)
        message_parts ==
            <<[part |-> "message", text |-> Get(r, "message", <<>>)]>>
            \o (IF HasList(r, "recommendations")
                THEN <<[part |-> "recommended_for_you"]>>
                     \o [i \in 1..Len(recs) |->
                           [part |-> "recommendation",
                            i |-> i,
                            name |-> recs[i].name,
                            brand |-> Get(recs[i], "brand", "Unknown"),
                            price |-> recs[i].price,
                            rating |-> Get(recs[i], "rating", "N/A"),
                            reason |-> truncate_text(Get(recs[i], "reason", <<>>), 80)]]
                ELSE <<>>)
            \o (IF HasDict(r, "loyalty_info")
                THEN <<[part |-> "loyalty",
                        tier |-> Get(loyalty, "tier", None),
                        points |-> Get(loyalty, "points", None)]>>
                ELSE <<>>)
            \o (IF HasDict(r, "cart") /\ Get(cart, "cart_count", 0) > 0
                THEN <<[part |-> "cart",
                        cart_count |-> cart.cart_count,
                        subtotal |-> Get(cart, "subtotal", 0)]>>
                ELSE <<>>)
    IN [type |-> "whatsapp_message",
        channel |-> "whatsapp",
        text |-> message_parts,
        quick_replies |->
            IF HasList(r, "suggestions")
            THEN [i \in 1..Len(suggestions) |->
                    [type |-> "reply", text |-> truncate_text(suggestions[i], 20)]]
            ELSE <<>>,
        timestamp |-> Get(r, "timestamp", None)]

\* InStoreAdapter._simplify_for_voice: the replace calls delete every "*"
\* and the two emoji (here the characters "sparkles" and "money bag")
simplify_for_voice(text) ==
    SelectSeq(text, LAMBDA c : c \notin {"*", "sparkles", "money bag"})

\* InStoreAdapter._generate_aisle_location
generate_aisle_location(product_id) ==
    CASE product_id = 1 -> "Aisle 3, Section B"
      [] product_id = 2 -> "Aisle 5, Section A"
      [] product_id = 3 -> "Aisle 2, Section C"
      [] OTHER -> "Ask Associate"

\* InStoreAdapter.format_message
InStoreFormatMessage(r) ==
    [type |-> "kiosk_message",
     channel |-> "instore",
     display_text |-> Get(r, "message", <<>>),
     voice_text |-> simplify_for_voice(Get(r, "message", <<>>)),
     timestamp |-> Get(r, "timestamp", None),
     staff_assistance |->
        [available |-> TRUE,
         message |-> "Need help? A store associate can assist you",
         action |-> "call_associate"],
     qr_code |->
        [available |-> TRUE,
         message |-> "Scan to continue shopping on your phone",
         session_id |-> Get(r, "session_id", None)]]
    @@ Opt(HasList(r, "recommendations"),
           [product_tiles |->
              LET shown == Take(Get(r, "recommendations", <<>>), 4) IN
              [i \in 1..Len(shown) |->
                 [product_id |-> Get(shown[i], "product_id", None),
                  image |-> Get(shown[i], "image", None),
                  name |-> Get(shown[i], "name", None),
                  price |-> Get(shown[i], "price", None),
                  in_stock_here |-> Get(shown[i], "in_stock", TRUE),
                  aisle |-> generate_aisle_location(Get(shown[i], "product_id", None))]]])

\* MobileAdapter._action_to_icon
action_to_icon(action_type) ==
    CASE action_type = "view_product" -> "eye"
      [] action_type = "add_to_cart" -> "cart"
      [] action_type = "checkout" -> "credit-card"
      [] action_type = "view_cart" -> "shopping-bag"
      [] OTHER -> "info"

\* MobileAdapter.format_recommendations: every recommendation, no limit
MobileFormatRecommendations(recommendations) ==
    [i \in 1..Len(recommendations) |->
        LET rec == recommendations[i] IN
        [product_id |-> Get(rec, "product_id", None),
         image |-> Get(rec, "image", None),
         name |-> truncate_text(Get(rec, "name", <<>>), 40),
         price |-> Get(rec, "price", None),
         rating |-> Get(rec, "rating", None),
         quick_add |-> TRUE]]

\* MobileAdapter.format_cart
MobileFormatCart(cart_data) ==
    [items |-> Get(cart_data, "cart", <<>>),
     count |-> Get(cart_data, "cart_count", 0),
     subtotal |-> Get(cart_data, "subtotal", 0),
     swipe_to_checkout |-> TRUE]

\* MobileAdapter.format_message
MobileFormatMessage(r) ==
    [type |-> "mobile_message",
     channel |-> "mobile",
     message |-> Get(r, "message", <<>>),
     timestamp |-> Get(r, "timestamp", None)]
    @@ Opt(HasList(r, "recommendations"),
           [horizontal_products |->
              MobileFormatRecommendations(Get(r, "recommendations", <<>>))])
    @@ Opt(HasDict(r, "cart"),
           [cart_sheet |-> MobileFormatCart(Get(r, "cart", <<>>))])
    @@ Opt(HasList(r, "actions"),
           [fab_actions |->
              LET shown == Take(Get(r, "actions", <<>>), 3) IN
              [i \in 1..Len(shown) |->
                 [type |-> Get(shown[i], "type", None),
                  icon |-> action_to_icon(Get(shown[i], "type", None)),
                  label |-> Get(shown[i], "label", None)]]])

\* channel.lower() on the channel names that are used here
LowerChannel(channel) ==
    CASE channel = "WhatsApp" -> "whatsapp"
      [] channel = "Mobile" -> "mobile"
      [] OTHER -> channel

\* get_channel_adapter(channel).format_message(ai_response): the adapter of
\* the lower-cased name, the web adapter for any other name
FormatMessage(channel, r) ==
    CASE LowerChannel(channel) = "whatsapp" -> WhatsAppFormatMessage(r)
      [] LowerChannel(channel) = "instore" -> InStoreFormatMessage(r)
      [] LowerChannel(channel) = "mobile" -> MobileFormatMessage(r)
      [] OTHER -> WebFormatMessage(r)

---------------------------------------------------------------------------
(* The payment agent, agents/payment_agent.py.  Amounts are integers in   *)
(* millionths of a dollar, in which every amount of _calculate_pricing is *)
(* exact for prices given in mills.                                        *)

\* one cent and one dollar
Cent == 10000
Dollar == 1000000

\* the customers table as seed_data.py fills it
SeedCustomers ==
    (1 :> [name |-> "Sarah Johnson", loyalty_tier |-> "Silver", loyalty_points |-> 1250])
    @@ (2 :> [name |-> "Mike Chen", loyalty_tier |-> "Gold", loyalty_points |-> 2500])

\* no PaymentAgent call is in progress; orders counts the orders created
IdleCheckout ==
    [pc |-> "idle", orders |-> 0, cart_items |-> <<>>, customer_id |-> 0,
     payment_method |-> "none", fault |-> "none", result |-> <<>>]
NoCheckout == customers = SeedCustomers /\ checkout = IdleCheckout

\* round(x, 2): the nearest cent; a decimal tie is decided by the binary
\* value of the float, so both neighbours are possible
RoundCents(x) ==
    LET r == x % Cent
    IN IF r = Cent \div 2 THEN {x - r, x - r + Cent}
       ELSE IF r < Cent \div 2 THEN {x - r}
       ELSE {x - r + Cent}

\* int(x) for an amount x, in dollars: truncation towards zero
IntDollars(x) == IF x >= 0 THEN x \div Dollar ELSE -((-x) \div Dollar)

\* int(subtotal * 100): the whole cents of the subtotal.  The product of
\* the two floats is exact for whole dollars; for other whole numbers of
\* cents it may fall just below the integer
IntCents(subtotal) ==
    IF subtotal % Cent # 0 \/ subtotal % Dollar = 0 THEN {subtotal \div Cent}
    ELSE {subtotal \div Cent - 1, subtotal \div Cent}

\* the loop of _calculate_pricing: one priced entry per cart item whose
\* product row exists
RECURSIVE PricingItems(_, _)
PricingItems(cart_items, store) ==
    IF cart_items = <<>> THEN <<>>
    ELSE LET item == Head(cart_items)
             quantity == Get(item, "quantity", 1)
             rest == PricingItems(Tail(cart_items), store)
         IN IF item.product_id \in DOMAIN store
            THEN <<[product_id |-> item.product_id,
                    price |-> store[item.product_id] * 1000,
                    quantity |-> quantity,
                    total |-> store[item.product_id] * 1000 * quantity]>> \o rest
            ELSE rest

\* coupon_code.upper() on the codes that are used here
UpperCoupon(coupon_code) ==
    CASE coupon_code = "save20" -> "SAVE20"
      [] OTHER -> coupon_code

\* PaymentAgent._apply_coupon: the discount in percent of the subtotal
apply_coupon(coupon_code, subtotal) ==
    LET code == UpperCoupon(coupon_code)
        discount_percent == CASE code = "WELCOME10" -> 10
                              [] code = "SAVE20" -> 20
                              [] code = "BIRTHDAY" -> 15
                              [] code = "VIP25" -> 25
                              [] OTHER -> 0
    IN (subtotal \div 100) * discount_percent

\* PaymentAgent._calculate_pricing: the pricing dicts it may return
\* (customer_id 0 and coupon_code None stand for None)
calculate_pricing(cart_items, customer_id, apply_loyalty, coupon_code, store, custs) ==
    LET items_detail == PricingItems(cart_items, store)
        subtotal == SumSeq([i \in 1..Len(items_detail) |-> items_detail[i].total])
        bundle_discount == IF Len(cart_items) >= 3 THEN subtotal \div 10 ELSE 0
        redeems == /\ apply_loyalty
                   /\ customer_id # 0
                   /\ customer_id \in DOMAIN custs
                   /\ custs[customer_id].loyalty_points > 0
        coupon_discount == IF coupon_code # None
                           THEN apply_coupon(coupon_code, subtotal) ELSE 0
    IN UNION {
         LET points_used == IF redeems
                            THEN IF custs[customer_id].loyalty_points < cents
                                 THEN custs[customer_id].loyalty_points ELSE cents
                            ELSE 0
             loyalty_discount == points_used * Cent
             discounts ==
                 (IF Len(cart_items) >= 3
                  THEN <<[type |-> "bundle_discount", amount |-> bundle_discount]>>
                  ELSE <<>>)
                 \o (IF redeems
                     THEN <<[type |-> "loyalty_points", points_used |-> points_used,
                             amount |-> loyalty_discount]>>
                     ELSE <<>>)
                 \o (IF coupon_discount > 0
                     THEN <<[type |-> "coupon_code", coupon_code |-> coupon_code,
                             amount |-> coupon_discount]>>
                     ELSE <<>>)
             total_discount == SumSeq([i \in 1..Len(discounts) |-> discounts[i].amount])
             taxable_amount == subtotal - total_discount
             tax == (taxable_amount \div 25) * 2
             final_total == subtotal - total_discount + tax
         IN {[subtotal |-> rs,
              items |-> items_detail,
              discounts |-> discounts,
              total_discount |-> rd,
              tax |-> rt,
              final_total |-> rf,
              loyalty |-> [points_used |-> points_used,
                           points_earned |-> IntDollars(final_total),
                           discount_applied |-> rl],
              savings |-> rd] :
                rs \in RoundCents(subtotal), rd \in RoundCents(total_discount),
                rt \in RoundCents(tax), rf \in RoundCents(final_total),
                rl \in RoundCents(loyalty_discount)}
         : cents \in IntCents(subtotal)}

\* payment_method.lower() on the names that are used here
LowerMethod(payment_method) ==
    CASE payment_method = "PayPal" -> "paypal"
      [] OTHER -> payment_method

\* PaymentAgent._validate_payment_method
validate_payment_method(payment_method) ==
    IF LowerMethod(payment_method) \in {"card", "paypal", "apple_pay", "google_pay", "gift_card"}
    THEN [valid |-> TRUE, message |-> "Payment method accepted"]
    ELSE [valid |-> FALSE, message |-> "not supported", payment_method |-> payment_method]

\* PaymentAgent._get_alternative_payment_methods
AlternativePaymentMethods == <<"card", "paypal", "apple_pay", "google_pay", "gift_card">>

\* PaymentAgent._process_payment: the mock gateway succeeds or fails at
\* random, with one of three failures
ProcessPaymentResults(amount, payment_method, t) ==
    {[success |-> TRUE, transaction_id |-> "txn", amount |-> amount,
      payment_method |-> payment_method, timestamp |-> t, status |-> "completed"],
     [success |-> FALSE, error |-> "Payment declined - insufficient funds",
      error_type |-> "insufficient_funds", retry_allowed |-> FALSE],
     [success |-> FALSE, error |-> "Payment declined by card issuer",
      error_type |-> "card_declined", retry_allowed |-> TRUE],
     [success |-> FALSE, error |-> "Network error - please try again",
      error_type |-> "network_error", retry_allowed |-> TRUE]}

\* PaymentAgent._get_recovery_options
get_recovery_options(error_type, pricing) ==
    CASE error_type = "insufficient_funds" ->
            <<[option |-> "use_loyalty_points",
               reduce_total_to |-> pricing.final_total - 20 * Dollar],
              [option |-> "remove_items"],
              [option |-> "split_payment"]>>
      [] error_type = "card_declined" ->
            <<[option |-> "try_different_card"],
              [option |-> "use_alternative_method"]>>
      [] error_type = "network_error" ->
            <<[option |-> "retry_payment"]>>
      [] OTHER -> <<>>

\* the order dict of PaymentAgent._create_order
OrderOf(customer_id, pricing, payment_result, t) ==
    [order_id |-> "ORD",
     customer_id |-> customer_id,
     items |-> pricing.items,
     pricing |-> [subtotal |-> pricing.subtotal,
                  discount |-> pricing.total_discount,
                  tax |-> pricing.tax,
                  total |-> pricing.final_total],
     payment |-> [method |-> payment_result.payment_method,
                  transaction_id |-> payment_result.transaction_id,
                  status |-> "paid"],
     loyalty |-> pricing.loyalty,
     status |-> "confirmed",
     created_at |-> t,
     estimated_delivery |-> [days_after |-> 3, of |-> t]]

\* the customers table after _create_order: the points used are deducted
\* and the points earned added, when the customer has a row
CustomersAfterOrder(custs, customer_id, pricing) ==
    IF customer_id # 0 /\ customer_id \in DOMAIN custs
    THEN [custs EXCEPT ![customer_id].loyalty_points =
            @ - pricing.loyalty.points_used + pricing.loyalty.points_earned]
    ELSE custs

---------------------------------------------------------------------------
(* The store *)

\* get_session: the row, or None
SessionExists(session_id) == session_id \in DOMAIN sessions

\* update_session assigning the cart and the channel it is called with
\* whether they are provided or not
UpdateSessionStore_AllFields(store, session_id, setCart, cart, setChannel, channel) ==
    IF session_id \notin DOMAIN store THEN store
    ELSE [store EXCEPT ![session_id] = [@ EXCEPT !.cart = cart, !.channel = channel]]

\* the table after update_session(session_id, cart=..., channel=...):
\* only the fields that are provided (not None) are assigned
UpdateSessionStore(store, session_id, setCart, cart, setChannel, channel) ==
    IF session_id \notin DOMAIN store THEN store
    ELSE [store EXCEPT ![session_id] =
            [@ EXCEPT !.cart = IF setCart THEN cart ELSE @,
                      !.channel = IF setChannel THEN channel ELSE @]]

\* the table after update_session(session_id, messages=messages)
UpdateSessionMessages(store, session_id, messages) ==
    IF session_id \notin DOMAIN store THEN store
    ELSE [store EXCEPT ![session_id] = [@ EXCEPT !.messages = messages]]

\* the return value of update_session
UpdateSessionOk(store, session_id) == session_id \in DOMAIN store

---------------------------------------------------------------------------
(* Callers *)

\* The record of one caller.  pc is its position: "idle" (no request),
\* "write" (get_session has returned, update_session is still to be called)
\* or "done" (the payload in result has been returned).  read is the cart
\* get_session returned and cart the local list after the change; both are
\* locals and are gone once the function has returned.  found is history
\* only: whether the cart that was read held a line for product_id.
\* overtaken_adds is history only: the product ids of the add_to_cart calls
\* of other callers that were written to the same session row after this
\* request's get_session and before its own update_session.
IdleCall ==
    [pc |-> "idle", op |-> "none", session_id |-> "none", product_id |-> 0,
     quantity |-> 0, channel |-> "none", read |-> <<>>, cart |-> <<>>,
     messages |-> <<>>, found |-> FALSE, overtaken_adds |-> {}, result |-> [none |-> TRUE]]

\* the products table as seed_data.py fills it (180.00, 89.00 and 45.00, in
\* mills); no request changes it while the server runs
SeedProducts == (1 :> 180000) @@ (2 :> 89000) @@ (3 :> 45000)

Init ==
    /\ sessions = <<>>
    /\ products = SeedProducts
    /\ now = 0
    /\ calls = [p \in Callers |-> IdleCall]
    /\ message = <<>>
    /\ intent = "none"
    /\ NoFormat
    /\ NoCheckout
    /\ NoTurn

\* time passes
Tick ==
    /\ now < MaxClock
    /\ now' = now + 1
    /\ UNCHANGED <<sessions, products, calls, turnVars>>

\* a missing session reported as a failure of the request
NotFoundCall_Error(op, session_id) ==
    [IdleCall EXCEPT !.pc = "done", !.op = op, !.session_id = session_id,
                     !.result = [success |-> FALSE, error |-> "NoneType"]]

\* a request that found no session row: `if not session: return {...}`
NotFoundCall(op, session_id) ==
    [IdleCall EXCEPT !.pc = "done", !.op = op, !.session_id = session_id,
                     !.result = NotFoundPayload]

\* a request between its get_session and its update_session
PendingCall(op, session_id, product_id, quantity, channel, read, cart) ==
    [IdleCall EXCEPT !.pc = "write", !.op = op, !.session_id = session_id,
                     !.product_id = product_id, !.quantity = quantity,
                     !.channel = channel, !.read = read, !.cart = cart,
                     !.found = (FirstIndexOf(read, product_id) # 0)]

\* the callers after p committed a write to session_id and got result: the
\* requests of the others that have read that row and not yet written it
\* note the write
AfterWrite(p, done, session_id) ==
    [q \in Callers |->
        IF q = p THEN done
        ELSE IF calls[q].pc = "write" /\ calls[q].session_id = session_id
                /\ session_id \in DOMAIN sessions
                /\ done.op = "add_to_cart"
             THEN [calls[q] EXCEPT !.overtaken_adds = @ \cup {done.product_id}]
             ELSE calls[q]]

\* ContextManager.create_session: one transaction inserting a fresh row
create_session(p, in) ==
    /\ calls[p].pc = "idle"
    /\ \E t \in FreshTokens \ DOMAIN sessions, customer_id \in in.customers,
          channel \in in.channels :
         /\ sessions' = (t :> [session_id |-> t,
                               customer_id |-> customer_id,
                               channel |-> channel,
                               context |-> <<>>,
                               messages |-> <<>>,
                               cart |-> <<>>,
                               is_active |-> TRUE]) @@ sessions
         /\ calls' = [calls EXCEPT ![p] =
                        [IdleCall EXCEPT !.pc = "done", !.op = "create_session",
                                         !.session_id = t, !.channel = channel,
                                         !.result = [session_id |-> t]]]
    /\ UNCHANGED <<products, now, turnVars>>

\* add_to_cart up to the call of update_session: get_session, then the
\* local cart is changed in place
add_to_cart_read(p, in) ==
    /\ calls[p].pc = "idle"
    /\ \E s \in Tokens, product_id \in in.pids, quantity \in in.adds :
         IF ~SessionExists(s)
         THEN calls' = [calls EXCEPT ![p] = NotFoundCall("add_to_cart", s)]
         ELSE LET cart == sessions[s].cart
                  i == FirstIndexOf(cart, product_id)
              IN /\ (i # 0) => cart[i].quantity + quantity <= in.cap
                 /\ calls' = [calls EXCEPT ![p] =
                        PendingCall("add_to_cart", s, product_id, quantity, "none", cart,
                                    AddToCartLines(cart, product_id, quantity, now))]
    /\ UNCHANGED <<sessions, products, now, turnVars>>

\* remove_from_cart up to the call of update_session
remove_from_cart_read(p, in) ==
    /\ calls[p].pc = "idle"
    /\ \E s \in Tokens, product_id \in in.pids :
         IF ~SessionExists(s)
         THEN calls' = [calls EXCEPT ![p] = NotFoundCall("remove_from_cart", s)]
         ELSE LET cart == sessions[s].cart
              IN calls' = [calls EXCEPT ![p] =
                        PendingCall("remove_from_cart", s, product_id, 0, "none", cart,
                                    RemoveFromCartLines(cart, product_id))]
    /\ UNCHANGED <<sessions, products, now, turnVars>>

\* update_cart_quantity up to the call of update_session
update_cart_quantity_read(p, in) ==
    /\ calls[p].pc = "idle"
    /\ \E s \in Tokens, product_id \in in.pids, quantity \in in.sets :
         IF ~SessionExists(s)
         THEN calls' = [calls EXCEPT ![p] = NotFoundCall("update_cart_quantity", s)]
         ELSE LET cart == sessions[s].cart
              IN calls' = [calls EXCEPT ![p] =
                        PendingCall("update_cart_quantity", s, product_id, quantity, "none", cart,
                                    UpdateQuantityLines(cart, product_id, quantity))]
    /\ UNCHANGED <<sessions, products, now, turnVars>>

\* a cart mutation that applies its change to the row as it is stored at
\* the time of the write (one transaction for read and write)
cart_write_Atomic(p) ==
    /\ calls[p].pc = "write"
    /\ calls[p].op \in {"add_to_cart", "remove_from_cart", "update_cart_quantity"}
    /\ LET c == calls[p]
           stored == sessions[c.session_id].cart
           cart == IF c.op = "add_to_cart"
                   THEN AddToCartLines(stored, c.product_id, c.quantity, now)
                   ELSE IF c.op = "remove_from_cart"
                   THEN RemoveFromCartLines(stored, c.product_id)
                   ELSE UpdateQuantityLines(stored, c.product_id, c.quantity)
       IN
         /\ sessions' = UpdateSessionStore(sessions, c.session_id, TRUE, cart, FALSE, "none")
         /\ calls' = AfterWrite(p,
                [c EXCEPT !.pc = "done", !.read = <<>>, !.cart = <<>>,
                          !.result = CartPayload(UpdateSessionOk(sessions, c.session_id), cart)],
                c.session_id)
    /\ UNCHANGED <<products, now, turnVars>>

\* the rest of a cart mutation: update_session(session_id, cart=cart) and
\* the returned payload
cart_write(p) ==
    /\ calls[p].pc = "write"
    /\ calls[p].op \in {"add_to_cart", "remove_from_cart", "update_cart_quantity"}
    /\ LET c == calls[p] IN
         /\ sessions' = UpdateSessionStore(sessions, c.session_id, TRUE, c.cart, FALSE, "none")
         /\ calls' = AfterWrite(p,
                [c EXCEPT !.pc = "done", !.read = <<>>, !.cart = <<>>,
                          !.result = CartPayload(UpdateSessionOk(sessions, c.session_id), c.cart)],
                c.session_id)
    /\ UNCHANGED <<products, now, turnVars>>

\* clear_cart: update_session(session_id, cart=[]) and nothing else
clear_cart(p) ==
    /\ calls[p].pc = "idle"
    /\ \E s \in Tokens :
         /\ sessions' = UpdateSessionStore(sessions, s, TRUE, <<>>, FALSE, "none")
         /\ calls' = AfterWrite(p,
                [IdleCall EXCEPT !.pc = "done", !.op = "clear_cart", !.session_id = s,
                                 !.result = [ok |-> UpdateSessionOk(sessions, s)]],
                s)
    /\ UNCHANGED <<products, now, turnVars>>

\* get_cart storing the lines it could price as the session's cart
get_cart_WriteBack(p) ==
    /\ calls[p].pc = "idle"
    /\ \E s \in Tokens :
         IF ~SessionExists(s)
         THEN /\ calls' = [calls EXCEPT ![p] = NotFoundCall("get_cart", s)]
              /\ sessions' = sessions
         ELSE /\ \E payload \in GetCartPayloads(sessions[s].cart, products) :
                   calls' = [calls EXCEPT ![p] =
                       [IdleCall EXCEPT !.pc = "done", !.op = "get_cart", !.session_id = s,
                                        !.result = payload]]
              /\ sessions' = UpdateSessionStore(sessions, s, TRUE,
                      SelectSeq(sessions[s].cart,
                                LAMBDA item : item.product_id \in DOMAIN products),
                      FALSE, "none")
    /\ UNCHANGED <<products, now, turnVars>>

\* get_cart: get_session, then one product query per cart line; it calls
\* no update_session
get_cart(p) ==
    /\ calls[p].pc = "idle"
    /\ \E s \in Tokens :
         IF ~SessionExists(s)
         THEN calls' = [calls EXCEPT ![p] = NotFoundCall("get_cart", s)]
         ELSE \E payload \in GetCartPayloads(sessions[s].cart, products) :
                calls' = [calls EXCEPT ![p] =
                    [IdleCall EXCEPT !.pc = "done", !.op = "get_cart", !.session_id = s,
                                     !.result = payload]]
    /\ UNCHANGED <<sessions, products, now, turnVars>>

\* switch_channel up to the call of update_session
switch_channel_read(p, in) ==
    /\ calls[p].pc = "idle"
    /\ \E s \in Tokens, new_channel \in in.channels :
         IF ~SessionExists(s)
         THEN calls' = [calls EXCEPT ![p] = NotFoundCall("switch_channel", s)]
         ELSE calls' = [calls EXCEPT ![p] =
                        PendingCall("switch_channel", s, 0, 0, new_channel,
                                    sessions[s].cart, sessions[s].cart)]
    /\ UNCHANGED <<sessions, products, now, turnVars>>

\* the rest of switch_channel: update_session(session_id, channel=new_channel)
switch_channel_write(p) ==
    /\ calls[p].pc = "write"
    /\ calls[p].op = "switch_channel"
    /\ LET c == calls[p] IN
         /\ sessions' = UpdateSessionStore(sessions, c.session_id, FALSE, <<>>, TRUE, c.channel)
         /\ calls' = AfterWrite(p,
                [c EXCEPT !.pc = "done", !.read = <<>>, !.cart = <<>>,
                          !.result =
                             IF UpdateSessionOk(sessions, c.session_id)
                             THEN [success |-> TRUE,
                                   session_id |-> c.session_id,
                                   new_channel |-> c.channel,
                                   context_preserved |-> TRUE,
                                   cart_items |-> Len(c.read)]
                             ELSE [success |-> FALSE, message |-> "Channel switch failed"]],
                c.session_id)
    /\ UNCHANGED <<products, now, turnVars>>

\* add_message up to the call of update_session: get_session, then the
\* new entry is appended to the local list
add_message_read(p) ==
    /\ calls[p].pc = "idle"
    /\ \E s \in Tokens, role \in {"user", "assistant"} :
         IF ~SessionExists(s)
         THEN calls' = [calls EXCEPT ![p] =
                  [IdleCall EXCEPT !.pc = "done", !.op = "add_message",
                                   !.session_id = s, !.result = [ok |-> FALSE]]]
         ELSE /\ Len(sessions[s].messages) < MaxMessages
              /\ calls' = [calls EXCEPT ![p] =
                  [IdleCall EXCEPT !.pc = "write", !.op = "add_message",
                                   !.session_id = s,
                                   !.read = sessions[s].cart,
                                   !.messages = Append(sessions[s].messages,
                                        [role |-> role, content |-> "text",
                                         timestamp |-> now])]]
    /\ UNCHANGED <<sessions, products, now, turnVars>>

\* the rest of add_message: update_session(session_id, messages=messages)
add_message_write(p) ==
    /\ calls[p].pc = "write"
    /\ calls[p].op = "add_message"
    /\ LET c == calls[p] IN
         /\ sessions' = UpdateSessionMessages(sessions, c.session_id, c.messages)
         /\ calls' = AfterWrite(p,
                [c EXCEPT !.pc = "done", !.read = <<>>, !.messages = <<>>,
                          !.result = [ok |-> UpdateSessionOk(sessions, c.session_id)]],
                c.session_id)
    /\ UNCHANGED <<products, now, turnVars>>

\* end_session deleting the row instead of flagging it
end_session_Delete(p) ==
    /\ calls[p].pc = "idle"
    /\ \E s \in Tokens :
         /\ sessions' = [t \in DOMAIN sessions \ {s} |-> sessions[t]]
         /\ calls' = AfterWrite(p,
                [IdleCall EXCEPT !.pc = "done", !.op = "end_session", !.session_id = s,
                                 !.result = [ok |-> SessionExists(s)]],
                s)
    /\ UNCHANGED <<products, now, turnVars>>

\* end_session: one transaction that sets is_active = False on the row,
\* if there is one
end_session(p) ==
    /\ calls[p].pc = "idle"
    /\ \E s \in Tokens :
         /\ sessions' = IF SessionExists(s)
                        THEN [sessions EXCEPT ![s] = [@ EXCEPT !.is_active = FALSE]]
                        ELSE sessions
         /\ calls' = AfterWrite(p,
                [IdleCall EXCEPT !.pc = "done", !.op = "end_session", !.session_id = s,
                                 !.result = [ok |-> SessionExists(s)]],
                s)
    /\ UNCHANGED <<products, now, turnVars>>

\* the caller receives the result; the request is over
Return(p) ==
    /\ calls[p].pc = "done"
    /\ calls' = [calls EXCEPT ![p] = IdleCall]
    /\ UNCHANGED <<sessions, products, now, turnVars>>

\* one request at a time, as the single event loop of one server process
\* runs them
Next ==
    \/ Tick
    \/ create_session("c1", SeqInputs)
    \/ add_to_cart_read("c1", SeqInputs)
    \/ remove_from_cart_read("c1", SeqInputs)
    \/ update_cart_quantity_read("c1", SeqInputs)
    \/ cart_write("c1")
    \/ clear_cart("c1")
    \/ get_cart("c1")
    \/ switch_channel_read("c1", SeqInputs)
    \/ switch_channel_write("c1")
    \/ Return("c1")

Spec == Init /\ [][Next]_vars

\* requests of several server processes on one database: the steps of
\* different callers interleave
NextRace ==
    \/ \E p \in Callers : create_session(p, RaceInputs)
    \/ \E p \in Callers : add_to_cart_read(p, RaceInputs)
    \/ \E p \in Callers : remove_from_cart_read(p, RaceInputs)
    \/ \E p \in Callers : update_cart_quantity_read(p, RaceInputs)
    \/ \E p \in Callers : cart_write(p)
    \/ \E p \in Callers : clear_cart(p)
    \/ \E p \in Callers : Return(p)

SpecRace == Init /\ [][NextRace]_vars

\* the life of a session: every ContextManager operation, one request at a
\* time, with channel names of any kind
NextLife ==
    \/ create_session("c1", LifeInputs)
    \/ add_message_read("c1")
    \/ add_message_write("c1")
    \/ add_to_cart_read("c1", LifeInputs)
    \/ remove_from_cart_read("c1", LifeInputs)
    \/ update_cart_quantity_read("c1", LifeInputs)
    \/ cart_write("c1")
    \/ clear_cart("c1")
    \/ switch_channel_read("c1", LifeInputs)
    \/ switch_channel_write("c1")
    \/ end_session("c1")
    \/ Return("c1")

SpecLife == Init /\ [][NextLife]_vars

\* two requests at a time that change different fields of a session row:
\* the cart, the channel and the messages
MixInputs ==
    [pids |-> {1}, adds |-> {1}, sets |-> {0}, cap |-> RaceQty,
     channels |-> {"web", "whatsapp"}, customers |-> {0}]

NextMix ==
    \/ \E p \in Callers : create_session(p, MixInputs)
    \/ \E p \in Callers : add_to_cart_read(p, MixInputs)
    \/ \E p \in Callers : cart_write(p)
    \/ \E p \in Callers : switch_channel_read(p, MixInputs)
    \/ \E p \in Callers : switch_channel_write(p)
    \/ \E p \in Callers : add_message_read(p)
    \/ \E p \in Callers : add_message_write(p)
    \/ \E p \in Callers : Return(p)

SpecMix == Init /\ [][NextMix]_vars

---------------------------------------------------------------------------
(* The payment agent called for a checkout *)

\* what a checkout may be asked for: cart_items as the client sends them
\* (product 4 has no row), customer 9 has no row, "crypto" is no payment
\* method, "BOGUS" no coupon
PayInputs ==
    [carts |-> {<<>>,
                <<[product_id |-> 3, quantity |-> 1]>>,
                <<[product_id |-> 1, quantity |-> 1],
                  [product_id |-> 2, quantity |-> 2],
                  [product_id |-> 4, quantity |-> 1]>>},
     customers |-> {0, 1, 9},
     methods |-> {"card", "PayPal", "crypto"},
     coupons |-> {None, "save20", "BOGUS"},
     faults |-> {"none", "pricing", "create_order"}]

\* the result of the `except Exception` branch of PaymentAgent.execute
SystemErrorResult ==
    [success |-> FALSE, message |-> "Payment processing failed",
     error_type |-> "system_error"]

\* PaymentAgent.execute: the results it may return, each with the
\* customers table it leaves.  fault names the database access that
\* raises, if any: the product query of _calculate_pricing or the customer
\* update of _create_order; may_order is false once the model's bound on
\* orders is reached
PaymentOutcomes(cart_items, customer_id, payment_method, apply_loyalty, coupon_code, fault, may_order, store, custs, t) ==
    IF cart_items = <<>>
    THEN {[result |-> [success |-> FALSE, message |-> "Cart is empty",
                       error_type |-> "empty_cart"],
           customers |-> custs]}
    ELSE IF fault = "pricing"
    THEN {[result |-> SystemErrorResult, customers |-> custs]}
    ELSE UNION {
      IF ~validate_payment_method(payment_method).valid
      THEN {[result |-> [success |-> FALSE,
                         message |-> validate_payment_method(payment_method).message,
                         error_type |-> "invalid_payment_method",
                         alternatives |-> AlternativePaymentMethods],
             customers |-> custs]}
      ELSE UNION {
        IF payment_result.success
        THEN IF ~may_order THEN {}
             ELSE IF fault = "create_order" /\ customer_id # 0
             THEN {[result |-> SystemErrorResult, customers |-> custs]}
             ELSE {[result |-> [success |-> TRUE,
                                message |-> "Payment successful!",
                                order |-> OrderOf(customer_id, pricing, payment_result, t),
                                pricing |-> pricing,
                                payment_details |-> payment_result],
                    customers |-> CustomersAfterOrder(custs, customer_id, pricing)]}
        ELSE {[result |-> [success |-> FALSE,
                           message |-> payment_result.error,
                           error_type |-> payment_result.error_type,
                           recovery_options |->
                              get_recovery_options(payment_result.error_type, pricing)],
               customers |-> custs]}
        : payment_result \in ProcessPaymentResults(pricing.final_total, payment_method, t)}
      : pricing \in calculate_pricing(cart_items, customer_id, apply_loyalty,
                                       coupon_code, store, custs)}

\* PaymentAgent.process_checkout / execute as one request
payment_execute(in) ==
    /\ checkout.pc = "idle"
    /\ \E cart_items \in in.carts, customer_id \in in.customers,
          payment_method \in in.methods, apply_loyalty \in BOOLEAN,
          coupon_code \in in.coupons, fault \in in.faults :
         \E out \in PaymentOutcomes(cart_items, customer_id, payment_method,
                                     apply_loyalty, coupon_code, fault,
                                     checkout.orders < MaxOrders,
                                     products, customers, now) :
            /\ checkout' = [pc |-> "done",
                            orders |-> checkout.orders
                                       + (IF out.result.success THEN 1 ELSE 0),
                            cart_items |-> cart_items,
                            customer_id |-> customer_id,
                            payment_method |-> payment_method,
                            fault |-> fault,
                            result |-> out.result]
            /\ customers' = out.customers
    /\ UNCHANGED <<storeVars, message, intent, formatVars, orchestratorVars, recommendationVars>>

\* the caller receives the result of the checkout
payment_return ==
    /\ checkout.pc = "done"
    /\ checkout' = [IdleCheckout EXCEPT !.orders = checkout.orders]
    /\ UNCHANGED <<customers, storeVars, message, intent, formatVars, orchestratorVars, recommendationVars>>

NextPay ==
    \/ payment_execute(PayInputs)
    \/ payment_return

SpecPay == Init /\ [][NextPay]_vars

\* the customers tables a checkout may find: the seeded one, and the one in
\* which customer 2 has earned 2000 points more with later orders
PointTables ==
    {SeedCustomers, [SeedCustomers EXCEPT ![2].loyalty_points = 4500]}

\* the checkouts that are priced: one entry, three entries, three entries
\* of which one product row exists; every coupon code of _apply_coupon
PointsInputs ==
    [carts |-> {<<[product_id |-> 3, quantity |-> 1]>>,
                <<[product_id |-> 3, quantity |-> 1],
                  [product_id |-> 1, quantity |-> 1],
                  [product_id |-> 2, quantity |-> 1]>>,
                <<[product_id |-> 3, quantity |-> 1],
                  [product_id |-> 4, quantity |-> 1],
                  [product_id |-> 5, quantity |-> 1]>>},
     customers |-> {0, 1, 2},
     methods |-> {"card"},
     coupons |-> {None, "WELCOME10", "save20", "BIRTHDAY", "VIP25"},
     faults |-> {"none"}]

InitPoints ==
    /\ sessions = <<>>
    /\ products = SeedProducts
    /\ now = 0
    /\ calls = [p \in Callers |-> IdleCall]
    /\ message = <<>>
    /\ intent = "none"
    /\ NoFormat
    /\ customers \in PointTables
    /\ checkout = IdleCheckout
    /\ NoTurn

NextPoints ==
    \/ payment_execute(PointsInputs)
    \/ payment_return

SpecPoints == InitPoints /\ [][NextPoints]_vars

---------------------------------------------------------------------------
(* The channel adapters applied to the responses the orchestrator builds *)

\* a recommendation as RecommendationAgent._fallback_recommendations
\* builds it (prices in mills)
RecItem(i) ==
    [product_id |-> i,
     name |-> <<"I", "t", "e", "m">>,
     price |-> 1000 * i,
     original_price |-> 1000 * i,
     brand |-> "Unknown",
     category |-> "General",
     image |-> None,
     rating |-> 0,
     in_stock |-> TRUE,
     reason |-> <<"P", "o", "p", "u", "l", "a", "r">>,
     confidence |-> 70]

\* the action lists of Orchestrator._determine_next_actions, and a longer
\* list
ViewProductAction ==
    [type |-> "view_product", label |-> "View Details",
     description |-> "See more about these items"]
AddToCartAction ==
    [type |-> "add_to_cart", label |-> "Add to Cart",
     description |-> "Add items you like"]
ProceedCheckoutAction ==
    [type |-> "proceed_checkout", label |-> "Proceed to Checkout",
     description |-> "Complete your purchase"]
ViewOrderAction ==
    [type |-> "view_order", label |-> "View Order",
     description |-> "See your order details"]
ActionLists ==
    {<<>>,
     <<ViewProductAction, AddToCartAction>>,
     <<ProceedCheckoutAction, ViewOrderAction, ViewProductAction, AddToCartAction>>}

\* the cart payloads of get_cart for an empty and for a one-line cart
FormatCarts ==
    GetCartPayloads(<<>>, SeedProducts)
    \cup GetCartPayloads(<<[product_id |-> 1, quantity |-> 2, added_at |-> 0]>>,
                         SeedProducts)

\* the responses of Orchestrator._synthesize_response that are formatted:
\* recommendations, cart and loyalty_info are optional keys
FormatResponses ==
    {[success |-> TRUE,
      message |-> <<"*", "H", "i", "*">>,
      intent |-> "browsing",
      suggestions |-> suggestions,
      timestamp |-> 0,
      actions |-> actions]
     @@ Opt(n >= 0, [recommendations |-> [i \in 1..n |-> RecItem(i)],
                     total_recommendations |-> n])
     @@ Opt(cart # <<>>, [cart |-> cart])
     @@ Opt(loyal, [loyalty_info |-> [tier |-> "Gold", points |-> 120,
                                      benefits |-> None]]) :
        suggestions \in {<<>>, <<<<"V", "i", "e", "w", " ", "C", "a", "r", "t">>,
                                  <<"C", "h", "e", "c", "k", "o", "u", "t">>>>},
        actions \in ActionLists,
        n \in (-1)..MaxRecs,
        cart \in FormatCarts \cup {<<>>},
        loyal \in BOOLEAN}

\* the channel names format_message is asked for
FormatChannels == {"web", "whatsapp", "instore", "mobile"}

InitFormat ==
    /\ sessions = <<>>
    /\ products = SeedProducts
    /\ now = 0
    /\ calls = [p \in Callers |-> IdleCall]
    /\ message = <<>>
    /\ intent = "none"
    /\ ai_response \in FormatResponses
    /\ formatted = <<>>
    /\ NoCheckout
    /\ NoTurn

\* format_message cutting the list of recommendations it was given down
\* to the three it shows
format_message_InPlace(channel) ==
    /\ DOMAIN ai_response # {}
    /\ formatted' = (channel :> [payload |-> FormatMessage(channel, ai_response),
                                  again |-> channel \in DOMAIN formatted])
                     @@ formatted
    /\ ai_response' = IF "recommendations" \in DOMAIN ai_response
                       THEN [ai_response EXCEPT
                                !["recommendations"] = Take(@, 3)]
                       ELSE ai_response
    /\ UNCHANGED <<storeVars, message, intent, paymentVars, orchestratorVars, recommendationVars>>

\* adapter.format_message(ai_response) for one channel: the payload is
\* built from the response, which is only read; again records that the
\* channel had been formatted before
format_message(channel) ==
    /\ DOMAIN ai_response # {}
    /\ formatted' = (channel :> [payload |-> FormatMessage(channel, ai_response),
                                  again |-> channel \in DOMAIN formatted])
                     @@ formatted
    /\ UNCHANGED <<ai_response, storeVars, message, intent, paymentVars, orchestratorVars, recommendationVars>>

NextFormat == \E channel \in FormatChannels : format_message(channel)

SpecFormat == InitFormat /\ [][NextFormat]_vars

---------------------------------------------------------------------------
(* The sales agent and the orchestrator, agents/sales_agent.py and         *)
(* agents/orchestrator.py.  A turn is one call of handle_conversation (or  *)
(* of handle_channel_conversation, which formats what handle_conversation  *)
(* returned).  The workers are awaited one after the other; each await is  *)
(* one step of the turn.                                                   *)

\* the texts _call_ai may return: a generated answer, or the text it
\* returns itself when the request to the language model fails
GeneratedReply == <<"T", "r", "y", " ", "t", "h", "i", "s", " ", "d", "r", "e", "s", "s", " ", "w", "i", "t", "h", " ", "s", "h", "o", "e", "s">>
AiErrorReply == <<"E", "r", "r", "o", "r", " ", "c", "a", "l", "l", "i", "n", "g", " ", "A", "I", ":", " ", "t", "i", "m", "e", "o", "u", "t">>
AiReplies == {GeneratedReply, AiErrorReply}

\* x in list
InList(x, list) == \E i \in 1..Len(list) : list[i] = x

\* SalesAgent._extract_suggestions
extract_suggestions(reply, intent_name) ==
    LET response_lower == LowerStr(reply)
        suggestions ==
            Opt(Contains(response_lower, <<"d", "r", "e", "s", "s">>), <<<<"B", "r", "o", "w", "s", "e", " ", "D", "r", "e", "s", "s", "e", "s">>>>)
            \o Opt(Contains(response_lower, <<"s", "h", "o", "e", "s">>)
                   \/ Contains(response_lower, <<"f", "o", "o", "t", "w", "e", "a", "r">>), <<<<"B", "r", "o", "w", "s", "e", " ", "S", "h", "o", "e", "s">>>>)
            \o Opt(Contains(response_lower, <<"a", "c", "c", "e", "s", "s", "o", "r", "i", "e", "s">>)
                   \/ Contains(response_lower, <<"j", "e", "w", "e", "l", "r", "y">>), <<<<"B", "r", "o", "w", "s", "e", " ", "A", "c", "c", "e", "s", "s", "o", "r", "i", "e", "s">>>>)
            \o (IF intent_name = "browsing" THEN <<<<"S", "e", "e", " ", "R", "e", "c", "o", "m", "m", "e", "n", "d", "a", "t", "i", "o", "n", "s">>>>
                ELSE IF intent_name = "purchase_intent"
                THEN <<<<"V", "i", "e", "w", " ", "C", "a", "r", "t">>, <<"C", "h", "e", "c", "k", "o", "u", "t">>>>
                ELSE IF intent_name = "needs_help" THEN <<<<"T", "a", "l", "k", " ", "t", "o", " ", "S", "p", "e", "c", "i", "a", "l", "i", "s", "t">>>>
                ELSE <<>>)
    IN Take(suggestions, 3)

\* SalesAgent._determine_next_actions
sales_determine_next_actions(intent_name) ==
    IF intent_name = "browsing" THEN <<"get_recommendations", "check_inventory">>
    ELSE IF intent_name = "purchase_intent" THEN <<"prepare_checkout", "apply_discounts">>
    ELSE IF intent_name = "needs_help" THEN <<"check_inventory", "get_product_details">>
    ELSE <<>>

\* SalesAgent._needs_worker_agents
needs_worker_agents(intent_name) ==
    IF intent_name \in {"browsing", "general"} THEN <<"recommendation", "inventory">>
    ELSE IF intent_name = "purchase_intent" THEN <<"inventory", "loyalty", "payment">>
    ELSE IF intent_name = "needs_help" THEN <<"inventory">>
    ELSE <<>>

\* SalesAgent.execute detecting the intent in the reply of _call_ai
SalesResponse_IntentOfReply(text, reply) ==
    LET intent_name == detect_intent(reply)
    IN [response |-> reply,
        intent |-> intent_name,
        suggestions |-> extract_suggestions(reply, intent_name),
        next_actions |-> sales_determine_next_actions(intent_name),
        requires_worker_agents |-> needs_worker_agents(intent_name)]

\* what SalesAgent.execute returns for a message and the reply of _call_ai
SalesResponse(text, reply) ==
    LET intent_name == detect_intent(text)
    IN [response |-> reply,
        intent |-> intent_name,
        suggestions |-> extract_suggestions(reply, intent_name),
        next_actions |-> sales_determine_next_actions(intent_name),
        requires_worker_agents |-> needs_worker_agents(intent_name)]

\* the text of the except branch of Orchestrator.execute
ApologyText ==
    <<"I", "'", "m", " ", "h", "a", "v", "i", "n", "g", " ", "t", "r", "o", "u", "b", "l", "e", " ", "p", "r", "o", "c", "e", "s", "s", "i", "n", "g", " ", "t", "h", "a", "t", " ", "r", "i", "g", "h", "t", " ", "n", "o", "w", ".", " ", "L", "e", "t", " ", "m", "e", " ", "h", "e", "l", "p", " ", "y", "o", "u", " ", "d", "i", "f", "f", "e", "r", "e", "n", "t", "l", "y", ".">>

\* the dict the except branch of Orchestrator.execute returns; error is
\* str(e), which the model gives as the name of the step that raised
FallbackResponse(error) ==
    [success |-> FALSE, response |-> ApologyText, error |-> error]

\* the results RecommendationAgent.execute may return: the recommendations
\* it generated, its record of failure when no product was found, or, when
\* an error inside the agent was caught and the fallback found no product
\* either, its record of that error
RecommendationResults ==
    {[success |-> TRUE,
      recommendations |-> [i \in 1..n |-> RecItem(i)],
      total_items |-> n,
      reasoning |-> "Based on customer preferences and occasion"] : n \in {2, 4}}
    \cup {[success |-> FALSE,
           message |-> "No products found matching criteria",
           recommendations |-> <<>>],
          [success |-> FALSE,
           message |-> "Error generating recommendations",
           recommendations |-> <<>>]}

\* InventoryAgent._check_product_availability for one product; the stock
\* figures read from the inventory column (available, total_stock,
\* locations) are left out
check_product_availability(product_id, quantity_needed, store) ==
    IF product_id \notin DOMAIN store
    THEN [available |-> FALSE, reason |-> "Product not found", alternatives |-> <<>>]
    ELSE [product_id |-> product_id, quantity_requested |-> quantity_needed]

\* InventoryAgent.check_multiple_products / execute: the results it may
\* return for a list of product ids and the quantities asked for (a dict,
\* keyed here by the product id where the code keys it by str(product_id));
\* an error inside the agent gives its record of failure
InventoryResults(product_ids, quantities, store, t) ==
    IF product_ids = <<>>
    THEN {[success |-> FALSE, message |-> "No products specified",
           availability |-> <<>>]}
    ELSE {[success |-> TRUE,
           availability |->
              [product_id \in {product_ids[i] : i \in 1..Len(product_ids)} |->
                 check_product_availability(product_id,
                                            Get(quantities, product_id, 1), store)],
           checked_at |-> t],
          [success |-> FALSE, message |-> "Inventory check failed",
           availability |-> <<>>]}

\* LoyaltyAgent.tier_benefits as _get_customer_benefits reports it: the
\* discount in percent, the points multiplier in tenths
TierBenefits(tier) ==
    CASE tier = "Silver" ->
           [member_discount |-> 5, points_multiplier |-> 15,
            free_shipping_threshold |-> 75, early_access |-> TRUE]
      [] tier = "Gold" ->
           [member_discount |-> 10, points_multiplier |-> 20,
            free_shipping_threshold |-> 50, early_access |-> TRUE]
      [] tier = "Platinum" ->
           [member_discount |-> 15, points_multiplier |-> 30,
            free_shipping_threshold |-> 0, early_access |-> TRUE]
      [] OTHER ->
           [member_discount |-> 0, points_multiplier |-> 10,
            free_shipping_threshold |-> 100, early_access |-> FALSE]

\* LoyaltyAgent.get_customer_loyalty_info / execute with check_benefits:
\* the results it may return (points_value, birthday_bonus and next_tier
\* are left out); an error inside the agent gives its record of failure
LoyaltyResults(customer_id, custs) ==
    IF customer_id = 0
    THEN {[success |-> FALSE, message |-> "Customer ID required"]}
    ELSE {IF customer_id \in DOMAIN custs
          THEN [success |-> TRUE,
                customer_name |-> custs[customer_id].name,
                loyalty_tier |-> custs[customer_id].loyalty_tier,
                loyalty_points |-> custs[customer_id].loyalty_points,
                benefits |-> TierBenefits(custs[customer_id].loyalty_tier)]
          ELSE [success |-> FALSE, message |-> "Customer not found"],
          [success |-> FALSE, message |-> "Loyalty processing failed"]}

\* the conditions under which the blocks of _handle_browsing call their
\* worker, given the results gathered so far
handle_browsing_calls(block, context, required_agents, results) ==
    CASE block = "recommendation" -> InList("recommendation", required_agents)
      [] block = "inventory" ->
           /\ InList("inventory", required_agents)
           /\ HasDict(results, "recommendations")
           /\ HasList(results["recommendations"], "recommendations")
      [] block = "loyalty" -> context.customer_id # 0
      [] OTHER -> FALSE

\* _handle_purchase calling the payment worker whatever the cart holds
handle_purchase_calls_AnyCart(block, context, required_agents) ==
    CASE block = "inventory" ->
           InList("inventory", required_agents) /\ context.cart_items # <<>>
      [] block = "loyalty" ->
           InList("loyalty", required_agents) /\ context.customer_id # 0
      [] block = "payment" -> InList("payment", required_agents)
      [] OTHER -> FALSE

\* the conditions under which the blocks of _handle_purchase call their
\* worker
handle_purchase_calls(block, context, required_agents) ==
    CASE block = "inventory" ->
           InList("inventory", required_agents) /\ context.cart_items # <<>>
      [] block = "loyalty" ->
           InList("loyalty", required_agents) /\ context.customer_id # 0
      [] block = "payment" ->
           InList("payment", required_agents) /\ context.cart_items # <<>>
      [] OTHER -> FALSE

\* the condition under which _handle_help calls the inventory worker
handle_help_calls(block, context, required_agents) ==
    /\ block = "inventory"
    /\ InList("inventory", required_agents)
    /\ HasList(context, "product_ids")

\* the blocks Orchestrator.execute runs for an intent, in program order:
\* those of the intent's handler, or the cart lookup of the view_cart branch
Blocks(intent_name) ==
    CASE intent_name = "browsing" -> <<"recommendation", "inventory", "loyalty">>
      [] intent_name = "purchase_intent" -> <<"inventory", "loyalty", "payment">>
      [] intent_name = "needs_help" -> <<"inventory">>
      [] intent_name = "view_cart" -> <<"view_cart">>
      [] OTHER -> <<>>

\* whether block k of the turn's intent does its call
BlockCalls(t, k) ==
    LET intent_name == t.sales_response.intent
        block == Blocks(intent_name)[k]
        required_agents == t.sales_response.requires_worker_agents
    IN CASE intent_name = "browsing" ->
              handle_browsing_calls(block, t.context, required_agents, t.worker_results)
         [] intent_name = "purchase_intent" ->
              handle_purchase_calls(block, t.context, required_agents)
         [] intent_name = "needs_help" ->
              handle_help_calls(block, t.context, required_agents)
         [] intent_name = "view_cart" -> t.context.session_id # None
         [] OTHER -> FALSE

\* the first block after block k that does its call, 0 if there is none
RECURSIVE NextBlock(_, _)
NextBlock(t, k) ==
    IF k >= Len(Blocks(t.sales_response.intent)) THEN 0
    ELSE IF BlockCalls(t, k + 1) THEN k + 1
    ELSE NextBlock(t, k + 1)

\* a handler that returns as soon as one of its workers reported a failure
Advance_StopOnFailure(t, k) ==
    LET n == IF \E key \in DOMAIN t.worker_results :
                   ~Get(t.worker_results[key], "success", FALSE)
             THEN 0
             ELSE NextBlock(t, k)
    IN [t EXCEPT !.stage = n,
                 !.pc = IF n = 0 THEN "synthesize"
                        ELSE Blocks(t.sales_response.intent)[n]]

\* the turn moved on from block k: to the next call, or to
\* _synthesize_response when the handler has returned
Advance(t, k) ==
    LET n == NextBlock(t, k)
    IN [t EXCEPT !.stage = n,
                 !.pc = IF n = 0 THEN "synthesize"
                        ELSE Blocks(t.sales_response.intent)[n]]

\* an exception reached the except branch of Orchestrator.execute
Caught(t, step) ==
    [t EXCEPT !.pc = "returned", !.failed = step,
              !.response = FallbackResponse(step)]

\* Orchestrator._determine_next_actions
determine_next_actions(intent_name, worker_results) ==
    IF intent_name = "browsing"
    THEN Opt(HasDict(worker_results, "recommendations"),
             <<ViewProductAction, AddToCartAction>>)
    ELSE IF intent_name = "purchase_intent"
    THEN Opt(HasDict(worker_results, "inventory"), <<ProceedCheckoutAction>>)
         \o Opt(HasDict(worker_results, "payment")
                /\ Get(worker_results["payment"], "success", FALSE),
                <<ViewOrderAction>>)
    ELSE <<>>

\* true when the worker's result is among the results and reports success
Succeeded(worker_results, key) ==
    key \in DOMAIN worker_results /\ Get(worker_results[key], "success", FALSE)

\* Orchestrator._synthesize_response; cart_reads holds what get_cart
\* returned, and is empty when the context has no session_id
synthesize_response(sales_response, worker_results, cart_reads, t) ==
    [success |-> TRUE,
     message |-> Get(sales_response, "response", <<>>),
     intent |-> Get(sales_response, "intent", None),
     suggestions |-> Get(sales_response, "suggestions", <<>>),
     timestamp |-> t,
     actions |-> determine_next_actions(Get(sales_response, "intent", None),
                                        worker_results)]
    @@ Opt(Succeeded(worker_results, "recommendations"),
           [recommendations |->
               Take(Get(worker_results["recommendations"], "recommendations", <<>>), 3),
            total_recommendations |->
               Get(worker_results["recommendations"], "total_items", 0)])
    @@ Opt(Succeeded(worker_results, "inventory"),
           [inventory_status |->
               Get(Get(worker_results["inventory"], "data", <<>>), "availability", <<>>)])
    @@ Opt(Succeeded(worker_results, "loyalty"),
           [loyalty_info |->
               [tier |-> Get(worker_results["loyalty"], "loyalty_tier", None),
                points |-> Get(worker_results["loyalty"], "loyalty_points", None),
                benefits |-> Get(worker_results["loyalty"], "benefits", None)]])
    @@ Opt("payment" \in DOMAIN worker_results,
           [payment_result |-> worker_results["payment"]])
    @@ Opt(cart_reads # <<>> /\ Get(cart_reads[1], "success", FALSE),
           [cart |-> cart_reads[1]])

\* the payloads ContextManager.get_cart may return for a session id
GetCartOf(rows, session_id, store) ==
    IF session_id \in DOMAIN rows
    THEN GetCartPayloads(rows[session_id].cart, store)
    ELSE {NotFoundPayload}

\* the text the view_cart branch of execute puts in place of the sales
\* agent's reply.  The text of a filled cart is given in pieces, the
\* formatted numbers as ToString gives them; the product id stands for the
\* product name, which the cart entries of the model leave out
EmptyCartText ==
    <<"Y", "o", "u", "r", " ", "c", "a", "r", "t", " ", "i", "s", " ", "e", "m", "p", "t", "y", ".", " ", "W", "o", "u", "l", "d", " ", "y", "o", "u", " ", "l", "i", "k", "e", " ", "m", "e", " ", "t", "o", " ", "r", "e", "c", "o", "m", "m", "e", "n", "d", " ", "s", "o", "m", "e", " ", "i", "t", "e", "m", "s", "?">>
CartText(cart_data) ==
    IF cart_data.success /\ Get(cart_data, "cart_count", 0) > 0
    THEN <<"You have ", ToString(cart_data.cart_count), " items in your cart:\n">>
         \o Concat([i \in 1..Len(cart_data.cart) |->
                      <<"(bullet) ", ToString(cart_data.cart[i].product_id),
                        " x", ToString(cart_data.cart[i].quantity),
                        " - $", ToString(cart_data.cart[i].subtotal), "\n">>])
         \o <<"\nSubtotal: $", ToString(Get(cart_data, "subtotal", 0))>>
    ELSE EmptyCartText

\* a worker was called with args and returned result, stored under key
Called(t, worker, args, key, result) ==
    [t EXCEPT !.worker_results = (key :> result) @@ @,
              !.invoked = Append(@, [worker |-> worker, args |-> args])]

\* the messages of the turns, one for each intent, and what else the
\* callers pass: customer 9 has no row, session-x neither; the second cart
\* holds an item without a product_id; kwargs are the further keyword
\* arguments, which handle_conversation copies into the context
TurnMessages ==
    {<<"S", "h", "o", "w", " ", "m", "e", " ", "d", "r", "e", "s", "s", "e", "s">>,
     <<"B", "u", "y", " ", "n", "o", "w">>, <<"H", "e", "l", "p">>, <<"M", "y", " ", "c", "a", "r", "t">>, <<"H", "e", "l", "l", "o">>, <<"R", "e", "f", "u", "n", "d">>, <<"O", "k">>}
TurnInputs ==
    [messages |-> TurnMessages,
     customers |-> {0, 1, 9},
     sessions |-> {None} \cup Tokens,
     carts |-> {<<>>,
                <<[product_id |-> 3, quantity |-> 1]>>,
                <<[quantity |-> 1]>>},
     kwargs |-> {<<>>, [product_ids |-> <<1, 4>>], [payment_method |-> "crypto"]},
     channels |-> FormatChannels]

\* handle_conversation up to the call of execute: the context is built and
\* the customer row is read; the query runs in a try with a finally and no
\* except, so an exception it raises leaves handle_conversation
handle_conversation(in) ==
    /\ turn.pc = "idle"
    /\ \E text \in in.messages, customer_id \in in.customers,
          session_id \in in.sessions, cart_items \in in.carts,
          kwargs \in in.kwargs, query \in {"answers", "raises"} :
         LET context == kwargs @@ [message |-> text,
                                   customer_id |-> customer_id,
                                   session_id |-> session_id,
                                   cart_items |-> cart_items]
             customer_info ==
                 Opt(customer_id \in DOMAIN customers,
                     [customer_info |->
                         [name |-> customers[customer_id].name,
                          loyalty_tier |-> customers[customer_id].loyalty_tier,
                          preferences |-> <<>>,
                          loyalty_points |-> customers[customer_id].loyalty_points]])
         IN /\ query = "raises" => customer_id # 0
            /\ turn' = IF query = "raises"
                       THEN [IdleTurn EXCEPT !.pc = "raised", !.context = context,
                                             !.failed = "customer_lookup"]
                       ELSE [IdleTurn EXCEPT !.pc = "analyze",
                                             !.context = customer_info @@ context]
    /\ UNCHANGED <<storeVars, message, intent, formatVars, paymentVars, recommendationVars>>

\* step 1 of execute: SalesAgent.execute.  The language model's answer may
\* have no text (content is None), on which _extract_suggestions raises
sales_agent_execute ==
    /\ turn.pc = "analyze"
    /\ \E reply \in AiReplies, content \in {"text", "none"} :
         turn' = IF content = "none"
                 THEN Caught(turn, "intent_analysis")
                 ELSE Advance([turn EXCEPT !.reply = reply,
                                           !.sales_response =
                                   SalesResponse(turn.context.message, reply)], 0)
    /\ UNCHANGED <<storeVars, message, intent, formatVars, paymentVars, recommendationVars>>

\* the recommendation block of _handle_browsing
call_recommendation ==
    /\ turn.pc = "recommendation"
    /\ \E result \in RecommendationResults :
         turn' = Advance(Called(turn, "recommendation", <<>>,
                                "recommendations", result), turn.stage)
    /\ UNCHANGED <<storeVars, message, intent, formatVars, paymentVars, recommendationVars>>

\* the inventory block of _handle_browsing passing the product ids of
\* every recommended product
InventoryArgs_AllRecommended(t) ==
    LET recommended_products == t.worker_results["recommendations"].recommendations
    IN IF t.sales_response.intent = "browsing"
       THEN [product_ids |-> [i \in 1..Len(recommended_products) |->
                                 recommended_products[i].product_id],
             quantities |-> <<>>]
       ELSE IF t.sales_response.intent = "purchase_intent"
       THEN [product_ids |-> [i \in 1..Len(t.context.cart_items) |->
                                 t.context.cart_items[i].product_id],
             quantities |->
                [product_id \in {t.context.cart_items[i].product_id :
                                    i \in 1..Len(t.context.cart_items)} |->
                   LET last == CHOOSE i \in 1..Len(t.context.cart_items) :
                                 /\ t.context.cart_items[i].product_id = product_id
                                 /\ \A j \in (i + 1)..Len(t.context.cart_items) :
                                       t.context.cart_items[j].product_id # product_id
                   IN Get(t.context.cart_items[last], "quantity", 1)]]
       ELSE [product_ids |-> Get(t.context, "product_ids", <<>>),
             quantities |-> <<>>]

\* the product ids and quantities the inventory block of the turn's
\* handler passes to check_multiple_products
InventoryArgs(t) ==
    LET intent_name == t.sales_response.intent
        cart_items == t.context.cart_items
        recommended_products ==
            Take(t.worker_results["recommendations"].recommendations, 3)
    IN IF intent_name = "browsing"
       THEN [product_ids |-> [i \in 1..Len(recommended_products) |->
                                 recommended_products[i].product_id],
             quantities |-> <<>>]
       ELSE IF intent_name = "purchase_intent"
       THEN [product_ids |-> [i \in 1..Len(cart_items) |-> cart_items[i].product_id],
             quantities |->
                [product_id \in {cart_items[i].product_id : i \in 1..Len(cart_items)} |->
                   LET last == CHOOSE i \in 1..Len(cart_items) :
                                 /\ cart_items[i].product_id = product_id
                                 /\ \A j \in (i + 1)..Len(cart_items) :
                                       cart_items[j].product_id # product_id
                   IN Get(cart_items[last], "quantity", 1)]]
       ELSE [product_ids |-> Get(t.context, "product_ids", <<>>),
             quantities |-> <<>>]

\* the inventory block of the turn's handler; item["product_id"] raises
\* in _handle_purchase for a cart item without that key
call_inventory ==
    /\ turn.pc = "inventory"
    /\ IF /\ turn.sales_response.intent = "purchase_intent"
          /\ \E i \in 1..Len(turn.context.cart_items) :
                "product_id" \notin DOMAIN turn.context.cart_items[i]
       THEN turn' = Caught(turn, "worker")
       ELSE \E result \in InventoryResults(InventoryArgs(turn).product_ids,
                                           InventoryArgs(turn).quantities,
                                           products, now) :
              turn' = Advance(Called(turn, "inventory", InventoryArgs(turn).product_ids,
                                     "inventory", result), turn.stage)
    /\ UNCHANGED <<storeVars, message, intent, formatVars, paymentVars, recommendationVars>>

\* the loyalty block of _handle_browsing and _handle_purchase
call_loyalty ==
    /\ turn.pc = "loyalty"
    /\ \E result \in LoyaltyResults(turn.context.customer_id, customers) :
         turn' = Advance(Called(turn, "loyalty", <<turn.context.customer_id>>,
                                "loyalty", result), turn.stage)
    /\ UNCHANGED <<storeVars, message, intent, formatVars, paymentVars, recommendationVars>>

\* the payment block of _handle_purchase: PaymentAgent.process_checkout
call_payment ==
    /\ turn.pc = "payment"
    /\ \E fault \in {"none", "pricing"} :
         \E out \in PaymentOutcomes(turn.context.cart_items,
                                     turn.context.customer_id,
                                     Get(turn.context, "payment_method", "card"),
                                     Get(turn.context, "apply_loyalty", TRUE),
                                     Get(turn.context, "coupon_code", None),
                                     fault, checkout.orders < MaxOrders,
                                     products, customers, now) :
            /\ turn' = Advance(Called(turn, "payment", turn.context.cart_items,
                                      "payment", out.result), turn.stage)
            /\ customers' = out.customers
            /\ checkout' = [checkout EXCEPT !.orders =
                               @ + (IF out.result.success THEN 1 ELSE 0)]
    /\ UNCHANGED <<storeVars, message, intent, formatVars, recommendationVars>>

\* the view_cart branch of execute: get_cart, which has a finally and no
\* except, then the reply of the sales agent is replaced
view_cart ==
    /\ turn.pc = "view_cart"
    /\ \/ turn' = Caught(turn, "cart_fetch")
       \/ \E cart_data \in GetCartOf(sessions, turn.context.session_id, products) :
            turn' = Advance([turn EXCEPT !.sales_response.response =
                                            CartText(cart_data)], turn.stage)
    /\ UNCHANGED <<storeVars, message, intent, formatVars, paymentVars, recommendationVars>>

\* step 3 of execute: _synthesize_response, which reads the cart of the
\* session when the context names one
synthesize ==
    /\ turn.pc = "synthesize"
    /\ IF turn.context.session_id = None
       THEN turn' = [turn EXCEPT !.pc = "returned",
                                 !.response = synthesize_response(
                                     turn.sales_response, turn.worker_results,
                                     <<>>, now)]
       ELSE \/ turn' = Caught(turn, "synthesis")
            \/ \E cart_data \in GetCartOf(sessions, turn.context.session_id, products) :
                 turn' = [turn EXCEPT !.pc = "returned",
                                      !.response = synthesize_response(
                                          turn.sales_response, turn.worker_results,
                                          <<cart_data>>, now)]
    /\ UNCHANGED <<storeVars, message, intent, formatVars, paymentVars, recommendationVars>>

\* handle_conversation returns to a caller of its own what execute returned
return_response ==
    /\ turn.pc = "returned"
    /\ turn' = [turn EXCEPT !.pc = "done", !.result = turn.response]
    /\ UNCHANGED <<storeVars, message, intent, formatVars, paymentVars, recommendationVars>>

\* handle_channel_conversation: what handle_conversation returned is
\* formatted by the adapter of the channel
format_response(in) ==
    /\ turn.pc = "returned"
    /\ \E channel \in in.channels :
         turn' = [turn EXCEPT !.pc = "done", !.channel = channel,
                              !.result = FormatMessage(channel, turn.response)]
    /\ UNCHANGED <<storeVars, message, intent, formatVars, paymentVars, recommendationVars>>

\* the caller has the result, or the exception
end_turn ==
    /\ turn.pc \in {"done", "raised"}
    /\ turn' = IdleTurn
    /\ UNCHANGED <<storeVars, message, intent, formatVars, paymentVars, recommendationVars>>

\* the session rows the turns find: session-a with an empty or a filled cart
InitTurn ==
    /\ \E cart \in {<<>>, <<[product_id |-> 1, quantity |-> 2, added_at |-> 0]>>} :
         sessions = ("session-a" :> [session_id |-> "session-a",
                                     customer_id |-> 0,
                                     channel |-> "web",
                                     context |-> <<>>,
                                     messages |-> <<>>,
                                     cart |-> cart,
                                     is_active |-> TRUE])
    /\ products = SeedProducts
    /\ now = 0
    /\ calls = [p \in Callers |-> IdleCall]
    /\ message = <<>>
    /\ intent = "none"
    /\ NoFormat
    /\ NoCheckout
    /\ NoTurn

NextTurn ==
    \/ handle_conversation(TurnInputs)
    \/ sales_agent_execute
    \/ call_recommendation
    \/ call_inventory
    \/ call_loyalty
    \/ call_payment
    \/ view_cart
    \/ synthesize
    \/ return_response
    \/ format_response(TurnInputs)
    \/ end_turn

SpecTurn == InitTurn /\ [][NextTurn]_vars

---------------------------------------------------------------------------
(* The ranking of recommendations, agents/recommendation_agent.py and      *)
(* BaseAgent._extract_json_from_text.  A text is a sequence of lexical     *)
(* units: the braces and brackets, the comma, a pair "product_id": 2 and   *)
(* any other piece of text.                                                *)

MaxLexemes == 5

\* the key-value pair of a JSON object: "product_id": 2
PairToken == "pid"

\* the lexical units
Lexemes == {"{", "}", "[", "]", ",", PairToken, "x"}

\* the texts _call_ai may return
AiTexts == UNION {[1..n -> Lexemes] : n \in 0..MaxLexemes}

\* what json.loads does with a text that is no JSON document, and the
\* None of _extract_json_from_text
JsonError == [type |-> "error"]
JsonNone == [type |-> "None"]

\* the JSON value that starts at position i of the text t, with the
\* position after it; ok is false where no value starts
RECURSIVE ParseValue(_, _)
RECURSIVE ParseMembers(_, _, _)
RECURSIVE ParseElements(_, _, _)
ParseValue(t, i) ==
    IF i + 1 > Len(t) THEN [ok |-> FALSE]
    ELSE IF t[i] = "{"
    THEN IF t[i + 1] = "}"
         THEN [ok |-> TRUE, next |-> i + 2,
               value |-> [type |-> "dict", value |-> <<>>]]
         ELSE ParseMembers(t, i + 1, <<>>)
    ELSE IF t[i] = "["
    THEN IF t[i + 1] = "]"
         THEN [ok |-> TRUE, next |-> i + 2,
               value |-> [type |-> "list", value |-> <<>>]]
         ELSE ParseElements(t, i + 1, <<>>)
    ELSE [ok |-> FALSE]

\* the members of an object from position i on, d the object so far
ParseMembers(t, i, d) ==
    IF i + 1 > Len(t) \/ t[i] # PairToken THEN [ok |-> FALSE]
    ELSE LET object == ("product_id" :> 2) @@ d
         IN IF t[i + 1] = "}"
            THEN [ok |-> TRUE, next |-> i + 2,
                  value |-> [type |-> "dict", value |-> object]]
            ELSE IF t[i + 1] = ","
            THEN ParseMembers(t, i + 2, object)
            ELSE [ok |-> FALSE]

\* the elements of an array from position i on, l the array so far
ParseElements(t, i, l) ==
    LET element == ParseValue(t, i)
    IN IF ~element.ok \/ element.next > Len(t) THEN [ok |-> FALSE]
       ELSE LET array == Append(l, element.value)
            IN IF t[element.next] = "]"
               THEN [ok |-> TRUE, next |-> element.next + 1,
                     value |-> [type |-> "list", value |-> array]]
               ELSE IF t[element.next] = ","
               THEN ParseElements(t, element.next + 1, array)
               ELSE [ok |-> FALSE]

\* json.loads(t): the value when the whole text is one JSON value
JsonLoads(t) ==
    LET parsed == ParseValue(t, 1)
    IN IF parsed.ok /\ parsed.next = Len(t) + 1 THEN parsed.value ELSE JsonError

\* re.findall(r'\{[^{}]*\}', text, re.DOTALL) from position i on: the
\* matches from left to right, none overlapping another
RECURSIVE FindAll(_, _)
FindAll(text, i) ==
    IF i > Len(text) THEN <<>>
    ELSE IF text[i] # "{" THEN FindAll(text, i + 1)
    ELSE LET braces == {j \in (i + 1)..Len(text) : text[j] \in {"{", "}"}}
         IN IF braces = {} THEN <<>>
            ELSE LET j == CHOOSE b \in braces : \A c \in braces : b <= c
                 IN IF text[j] = "}"
                    THEN <<SubSeq(text, i, j)>> \o FindAll(text, j + 1)
                    ELSE FindAll(text, j)

\* the loop of _extract_json_from_text: the first match json.loads accepts
RECURSIVE FirstLoaded(_)
FirstLoaded(matches) ==
    IF matches = <<>> THEN JsonNone
    ELSE LET loaded == JsonLoads(Head(matches))
         IN IF loaded # JsonError THEN loaded ELSE FirstLoaded(Tail(matches))

\* _extract_json_from_text loading the whole text before it scans it
extract_json_from_text_WholeText(text) ==
    IF JsonLoads(text) # JsonError THEN JsonLoads(text)
    ELSE FirstLoaded(FindAll(text, 1))

\* BaseAgent._extract_json_from_text
extract_json_from_text(text) == FirstLoaded(FindAll(text, 1))

\* RecommendationAgent._fallback_recommendations
fallback_recommendations(product_ids) ==
    [i \in 1..Len(product_ids) |-> RecItem(product_ids[i])]

\* the entry _generate_smart_recommendations builds for a recommendation
\* of the model that names a product of the list
RankedItem(product_id, rec) ==
    [RecItem(product_id) EXCEPT
        !.confidence = Get(rec, "confidence", 80),
        !.reason = Get(rec, "reason", <<"G", "r", "e", "a", "t">>)]
    @@ [occasion_fit |-> Get(rec, "occasion_fit", <<"P", "e", "r", "f", "e", "c", "t">>),
        styling_tip |-> Get(rec, "styling_tip", <<>>),
        priority |-> Get(rec, "priority", 99)]

\* the merge loop of _generate_smart_recommendations.  Every entry has the
\* priority 99 here, so the stable sort leaves the entries in place
RECURSIVE MergeRecommendations(_, _)
MergeRecommendations(ai_recommendations, product_ids) ==
    IF ai_recommendations = <<>> THEN <<>>
    ELSE LET rec == Head(ai_recommendations)
             rest == MergeRecommendations(Tail(ai_recommendations), product_ids)
         IN IF rec.type # "dict" THEN rest
            ELSE LET product_id == Get(rec.value, "product_id", 0)
                 IN IF \E i \in 1..Len(product_ids) : product_ids[i] = product_id
                    THEN <<RankedItem(product_id, rec.value)>> \o rest
                    ELSE rest

\* `not ai_recommendations or not isinstance(ai_recommendations, list)`
ParsingFailed(ai_recommendations) ==
    \/ ai_recommendations = JsonNone
    \/ ai_recommendations.value = <<>>
    \/ ai_recommendations.type # "list"

\* RecommendationAgent._generate_smart_recommendations: what it returns
\* for the products it is given when _call_ai returns the text
SmartRecommendations(product_ids, text) ==
    LET ai_recommendations == extract_json_from_text(text)
    IN IF ParsingFailed(ai_recommendations)
       THEN fallback_recommendations(Take(product_ids, 3))
       ELSE LET final_recommendations ==
                    MergeRecommendations(ai_recommendations.value, product_ids)
            IN IF final_recommendations # <<>> THEN final_recommendations
               ELSE fallback_recommendations(Take(product_ids, 3))

\* the lists of products the ranking is asked for
SmartInputs == [products |-> {<<>>, <<1, 2>>, <<4, 3, 1, 2>>}, texts |-> AiTexts]

\* _generate_smart_recommendations as one request
generate_smart_recommendations(in) ==
    /\ smart.pc = "idle"
    /\ \E product_ids \in in.products, text \in in.texts :
         smart' = [pc |-> "done", products |-> product_ids, text |-> text,
                   result |-> SmartRecommendations(product_ids, text)]
    /\ UNCHANGED <<storeVars, message, intent, formatVars, paymentVars, orchestratorVars>>

\* the caller receives the list
smart_return ==
    /\ smart.pc = "done"
    /\ smart' = IdleSmart
    /\ UNCHANGED <<storeVars, message, intent, formatVars, paymentVars, orchestratorVars>>

NextSmart ==
    \/ generate_smart_recommendations(SmartInputs)
    \/ smart_return

SpecSmart == Init /\ [][NextSmart]_vars

---------------------------------------------------------------------------
(* Properties of the cart operations *)

\* the lines of a cart for one product
LinesOf(cart, product_id) ==
    {cart[i] : i \in {j \in 1..Len(cart) : cart[j].product_id = product_id}}

\* the positions of a cart's lines for one product
Positions(cart, product_id) == {i \in 1..Len(cart) : cart[i].product_id = product_id}

\* a cart as its (product, quantity) pairs
ProductQuantities(cart) == [i \in 1..Len(cart) |-> <<cart[i].product_id, cart[i].quantity>>]

\* caller p takes the step that writes the cart of operation op
WritesCart(p, op) ==
    calls[p].pc = "write" /\ calls[p].op = op /\ calls'[p].pc = "done"

\* C1: the write of an add_to_cart stores exactly the cart the call computed
\* from the cart it read and reports success; a line another caller's
\* add_to_cart wrote for a different product after this call's get_session
\* is not in the stored cart: the stored lines of that product are those the
\* call read.
C1_LastWriteWins ==
    [][\A p \in Callers :
          WritesCart(p, "add_to_cart")
          => LET c == calls[p]
                 s == c.session_id
             IN /\ sessions'[s].cart = c.cart
                /\ calls'[p].result.success = TRUE
                /\ calls'[p].result.cart = c.cart
                /\ \A lost \in c.overtaken_adds \ {c.product_id} :
                      LinesOf(sessions'[s].cart, lost) = LinesOf(c.read, lost)]_vars

\* two add_to_cart calls for different products have both returned success,
\* the second wrote after the first and had read before it, and the stored
\* cart is the second caller's with no line for the first caller's product
C1_Witness ==
    \E p, q \in Callers :
        /\ p # q
        /\ calls[p].pc = "done" /\ calls[p].op = "add_to_cart"
        /\ calls[q].pc = "done" /\ calls[q].op = "add_to_cart"
        /\ calls[p].session_id = calls[q].session_id
        /\ calls[p].product_id # calls[q].product_id
        /\ calls[q].product_id \in calls[p].overtaken_adds
        /\ calls[p].result.success /\ calls[q].result.success
        /\ LinesOf(calls[q].result.cart, calls[q].product_id) # {}
        /\ sessions[calls[p].session_id].cart = calls[p].result.cart
        /\ LinesOf(sessions[calls[p].session_id].cart, calls[q].product_id) = {}

\* C2: in every reachable state the stored cart of every session has at
\* most one line per product id.
C2_OneLinePerProduct ==
    \A s \in DOMAIN sessions :
        \A i, j \in 1..Len(sessions[s].cart) :
            sessions[s].cart[i].product_id = sessions[s].cart[j].product_id => i = j

\* two callers added the same product concurrently (the one that wrote last
\* had read before the other wrote) and the stored cart holds two lines
C2_Witness ==
    \E p \in Callers :
        /\ calls[p].pc = "done" /\ calls[p].op = "add_to_cart"
        /\ calls[p].product_id \in calls[p].overtaken_adds
        /\ Len(sessions[calls[p].session_id].cart) = 2

\* C3: the write of add_to_cart(S, P, q), q > 0, either adds q to the
\* quantity of the line for P and changes nothing else, or, when there is no
\* line for P, appends one line (P, q) at the end; and adding a and then b
\* of P to the stored cart gives the same products and quantities as adding
\* a + b once, with exactly one line for P.
C3_AddToCart ==
    [][\A p \in Callers :
          WritesCart(p, "add_to_cart")
          => LET c == calls[p]
                 P == c.product_id
                 old == sessions[c.session_id].cart
                 new == sessions'[c.session_id].cart
                 hits == Positions(old, P)
             IN /\ c.quantity > 0
                /\ IF hits # {}
                   THEN /\ Len(new) = Len(old)
                        /\ \A i \in 1..Len(old) :
                              new[i] = IF i \in hits
                                       THEN [old[i] EXCEPT !.quantity = @ + c.quantity]
                                       ELSE old[i]
                   ELSE /\ Len(new) = Len(old) + 1
                        /\ SubSeq(new, 1, Len(old)) = old
                        /\ new[Len(new)].product_id = P
                        /\ new[Len(new)].quantity = c.quantity
                /\ Cardinality(Positions(new, P)) = 1
                /\ \A a, b \in 1..MaxAdd, t1, t2 \in 0..MaxClock :
                      LET twice == AddToCartLines(AddToCartLines(old, P, a, t1), P, b, t2)
                          once == AddToCartLines(old, P, a + b, t1)
                      IN /\ ProductQuantities(twice) = ProductQuantities(once)
                         /\ Cardinality(Positions(twice, P)) = 1]_vars

\* an add_to_cart found the line of its product and the line now holds more
\* than one call can add or set: it is the sum of repeated adds
C3_Witness ==
    \E p \in Callers :
        /\ calls[p].pc = "done" /\ calls[p].op = "add_to_cart"
        /\ calls[p].found
        /\ calls[p].result.success
        /\ \E line \in LinesOf(sessions[calls[p].session_id].cart, calls[p].product_id) :
              line.quantity > MaxAdd

\* the operations that answer 'Session not found'
NotFoundOps ==
    {"add_to_cart", "remove_from_cart", "update_cart_quantity", "get_cart", "switch_channel"}

\* C4: add_to_cart, remove_from_cart, update_cart_quantity, get_cart and
\* switch_channel called with a session id that has no row return
\* {success: false, message: 'Session not found'} at once, create no row
\* and leave the table of sessions as it is.
C4_SessionNotFound ==
    [][\A p \in Callers :
          (/\ calls[p].pc = "idle"
           /\ calls'[p].pc # "idle"
           /\ calls'[p].op \in NotFoundOps
           /\ calls'[p].session_id \notin DOMAIN sessions)
          => /\ calls'[p].pc = "done"
             /\ calls'[p].result = NotFoundPayload
             /\ sessions' = sessions]_vars

\* a cart mutation has been answered 'Session not found' while a session
\* with another id is stored
C4_Witness ==
    \E p \in Callers :
        /\ calls[p].pc = "done" /\ calls[p].op = "add_to_cart"
        /\ calls[p].session_id \notin DOMAIN sessions
        /\ calls[p].result = NotFoundPayload
        /\ DOMAIN sessions # {}

\* C5: the write of remove_from_cart(S, P) stores the cart without its line
\* for P, the other lines in their order; when the cart has no line for P
\* the stored cart stays as it is and the call returns success with that
\* cart.
C5_RemoveFromCart ==
    [][\A p \in Callers :
          WritesCart(p, "remove_from_cart")
          => LET c == calls[p]
                 old == sessions[c.session_id].cart
                 new == sessions'[c.session_id].cart
                 hits == Positions(old, c.product_id)
             IN /\ calls'[p].result.success = TRUE
                /\ calls'[p].result.cart = new
                /\ Positions(new, c.product_id) = {}
                /\ IF hits = {}
                   THEN new = old /\ sessions' = sessions
                   ELSE \E i \in hits :
                          new = SubSeq(old, 1, i - 1) \o SubSeq(old, i + 1, Len(old))]_vars

\* a remove_from_cart of a product that had no line returned success with
\* the cart of one or more lines that is still stored
C5_Witness ==
    \E p \in Callers :
        /\ calls[p].pc = "done" /\ calls[p].op = "remove_from_cart"
        /\ ~calls[p].found
        /\ calls[p].result.success
        /\ calls[p].result.cart # <<>>
        /\ sessions[calls[p].session_id].cart = calls[p].result.cart

\* C6: the write of update_cart_quantity(S, P, q) stores, for q <= 0, the
\* cart remove_from_cart(S, P) stores; for q > 0 and a line for P, the cart
\* with that line's quantity set to q; and the unchanged cart when there is
\* no line for P.
C6_UpdateCartQuantity ==
    [][\A p \in Callers :
          WritesCart(p, "update_cart_quantity")
          => LET c == calls[p]
                 old == sessions[c.session_id].cart
                 new == sessions'[c.session_id].cart
                 hits == Positions(old, c.product_id)
             IN IF hits = {} THEN new = old
                ELSE IF c.quantity <= 0 THEN new = RemoveFromCartLines(old, c.product_id)
                ELSE /\ Len(new) = Len(old)
                     /\ \A i \in 1..Len(old) :
                           new[i] = IF i \in hits
                                    THEN [old[i] EXCEPT !.quantity = c.quantity]
                                    ELSE old[i]]_vars

\* an update_cart_quantity with quantity 0 found its line and removed it,
\* leaving the other line
C6_Witness ==
    \E p \in Callers :
        /\ calls[p].pc = "done" /\ calls[p].op = "update_cart_quantity"
        /\ calls[p].quantity = 0
        /\ calls[p].found
        /\ Len(sessions[calls[p].session_id].cart) = 1
        /\ Positions(sessions[calls[p].session_id].cart, calls[p].product_id) = {}

---------------------------------------------------------------------------
(* Pricing a cart: get_cart on carts of up to MaxLines lines *)

\* the longest cart that is priced
MaxLines == 3
\* the largest quantity of a priced line
PriceQty == 2

PricePids == {1, 2, 3, 4}

\* product tables: the prices 10.00, 20.00, 30.00 with product 4 missing,
\* and prices that do not fall on a cent with product 3 missing
PriceStores ==
    {(1 :> 10000) @@ (2 :> 20000) @@ (3 :> 30000),
     (1 :> 19995) @@ (2 :> 10004) @@ (4 :> 5)}

PriceLines == [product_id : PricePids, quantity : 1..PriceQty, added_at : {0}]

\* carts as the cart mutations leave them: one line per product
PriceCarts ==
    {c \in UNION {[1..n -> PriceLines] : n \in 0..MaxLines} :
        \A i, j \in 1..Len(c) : i # j => c[i].product_id # c[j].product_id}

InitPrice ==
    /\ \E cart \in PriceCarts :
         sessions = ("session-a" :> [session_id |-> "session-a",
                                     customer_id |-> 0,
                                     channel |-> "web",
                                     context |-> <<>>,
                                     messages |-> <<>>,
                                     cart |-> cart,
                                     is_active |-> TRUE])
    /\ products \in PriceStores
    /\ now = 0
    /\ calls = [p \in Callers |-> IdleCall]
    /\ message = <<>>
    /\ intent = "none"
    /\ NoFormat
    /\ NoCheckout
    /\ NoTurn

NextPrice ==
    \/ get_cart("c1")
    \/ Return("c1")

SpecPrice == InitPrice /\ [][NextPrice]_vars

\* the positions of the cart lines whose product row exists
Resolved(cart, store) == {i \in 1..Len(cart) : cart[i].product_id \in DOMAIN store}

\* the sum of f over the set of positions I
RECURSIVE SumOver(_, _)
SumOver(I, f) ==
    IF I = {} THEN 0
    ELSE LET i == CHOOSE x \in I : TRUE IN f[i] + SumOver(I \ {i}, f)

\* caller p takes the step that answers a get_cart on an existing session
AnswersGetCart(p) ==
    /\ calls[p].pc = "idle"
    /\ calls'[p].pc = "done"
    /\ calls'[p].op = "get_cart"
    /\ calls'[p].session_id \in DOMAIN sessions

\* C7: get_cart leaves the table of sessions as it is, the lines of the
\* stored cart whose product does not resolve included, while its payload
\* holds one item per resolving line, in cart order, and counts only those.
C7_GetCartReadOnly ==
    [][\A p \in Callers :
          AnswersGetCart(p)
          => LET cart == sessions[calls'[p].session_id].cart
                 r == calls'[p].result
                 R == Resolved(cart, products)
             IN /\ sessions' = sessions
                /\ sessions'[calls'[p].session_id].cart = cart
                /\ \A i \in 1..Len(r.cart) : r.cart[i].product_id \in DOMAIN products
                /\ Len(r.cart) = Cardinality(R)
                /\ r.cart_count = Cardinality(R)
                /\ \A i, j \in R :
                      i < j => \E a, b \in 1..Len(r.cart) :
                                  /\ a < b
                                  /\ r.cart[a].product_id = cart[i].product_id
                                  /\ r.cart[b].product_id = cart[j].product_id]_vars

\* a get_cart has answered with fewer items than the stored cart has lines,
\* and the stored cart still holds a line whose product does not resolve
C7_Witness ==
    \E p \in Callers :
        /\ calls[p].pc = "done" /\ calls[p].op = "get_cart"
        /\ calls[p].session_id \in DOMAIN sessions
        /\ calls[p].result.cart_count > 0
        /\ calls[p].result.cart_count < Len(sessions[calls[p].session_id].cart)
        /\ \E i \in 1..Len(sessions[calls[p].session_id].cart) :
              sessions[calls[p].session_id].cart[i].product_id \notin DOMAIN products

\* C8: the payload of get_cart has cart_count = the number of lines whose
\* product resolves, total_items = the sum of their quantities and subtotal
\* = the sum of price x quantity over them rounded to the cent (a multiple
\* of 0.01 at most half a cent away); three lines of quantity 1 priced
\* 10.00, 20.00 and 30.00 give 60.00, 3 and 3.
C8_CartTotals ==
    \A p \in Callers :
        (/\ calls[p].pc = "done" /\ calls[p].op = "get_cart"
         /\ calls[p].session_id \in DOMAIN sessions)
        => LET cart == sessions[calls[p].session_id].cart
               r == calls[p].result
               R == Resolved(cart, products)
               total == SumOver(R, [i \in R |-> products[cart[i].product_id] * cart[i].quantity])
           IN /\ r.success = TRUE
              /\ r.cart_count = Cardinality(R)
              /\ r.total_items = SumOver(R, [i \in R |-> cart[i].quantity])
              /\ r.subtotal % 10 = 0
              /\ r.subtotal - total <= 5 /\ total - r.subtotal <= 5
              /\ (/\ Len(cart) = 3
                  /\ \A i \in 1..3 : i \in R /\ cart[i].quantity = 1
                  /\ {products[cart[i].product_id] : i \in 1..3} = {10000, 20000, 30000})
                 => r.subtotal = 60000 /\ r.cart_count = 3 /\ r.total_items = 3

\* get_cart has priced three lines of quantity 1 at 10.00, 20.00 and 30.00
C8_Witness ==
    \E p \in Callers :
        /\ calls[p].pc = "done" /\ calls[p].op = "get_cart"
        /\ calls[p].session_id \in DOMAIN sessions
        /\ LET cart == sessions[calls[p].session_id].cart
           IN /\ Len(cart) = 3
              /\ \A i \in 1..3 : cart[i].product_id \in DOMAIN products /\ cart[i].quantity = 1
              /\ {products[cart[i].product_id] : i \in 1..3} = {10000, 20000, 30000}
        /\ calls[p].result.subtotal = 60000
        /\ calls[p].result.cart_count = 3
        /\ calls[p].result.total_items = 3

---------------------------------------------------------------------------
(* Classifying a message *)

InitIntent ==
    /\ sessions = <<>>
    /\ products = <<>>
    /\ now = 0
    /\ calls = [p \in Callers |-> IdleCall]
    /\ message \in Messages
    /\ intent = "none"
    /\ NoFormat
    /\ NoCheckout
    /\ NoTurn

\* SalesAgent.execute, as far as the intent goes: the message of the turn
\* is classified
classify ==
    /\ intent = "none"
    /\ intent' = detect_intent(message)
    /\ UNCHANGED <<message, storeVars, formatVars, paymentVars, orchestratorVars, recommendationVars>>

NextIntent == classify

SpecIntent == InitIntent /\ [][NextIntent]_vars

\* word occurs in text when the case of letters is ignored
MatchesCI(text, word) ==
    \E k \in 1..Len(text) :
        /\ k + Len(word) - 1 <= Len(text)
        /\ \A j \in 1..Len(word) : Lower(text[k + j - 1]) = Lower(word[j])

\* the labels in their order of priority, each with its keywords
IntentTable ==
    <<[label |-> "view_cart", words |-> CartKeywords],
      [label |-> "purchase_intent", words |-> PurchaseKeywords],
      [label |-> "browsing", words |-> BrowsingKeywords],
      [label |-> "needs_help", words |-> HelpKeywords],
      [label |-> "greeting", words |-> GreetingKeywords],
      [label |-> "complaint", words |-> ComplaintKeywords]>>

\* the rows of the table with a keyword occurring in text
MatchingRows(text) ==
    {i \in 1..Len(IntentTable) :
        \E j \in 1..Len(IntentTable[i].words) : MatchesCI(text, IntentTable[i].words[j])}

\* the label of the first matching row, "general" when there is none
FirstMatch(text) ==
    LET rows == MatchingRows(text)
    IN IF rows = {} THEN "general"
       ELSE IntentTable[CHOOSE i \in rows : \A j \in rows : i <= j].label

\* C9: the intent of a message is the label of the first keyword set, in the
\* order view_cart, purchase_intent, browsing, needs_help, greeting,
\* complaint, with a keyword occurring in it whatever the case of letters,
\* and general when there is none; a message containing "cart" is view_cart.
C9_FirstMatchingSet ==
    intent # "none"
    => /\ intent = FirstMatch(message)
       /\ MatchesCI(message, <<"c", "a", "r", "t">>) => intent = "view_cart"

\* a message with "cart" and the purchase keyword "buy" was classified
\* view_cart
C9_Witness ==
    /\ intent = "view_cart"
    /\ MatchesCI(message, <<"c", "a", "r", "t">>)
    /\ MatchesCI(message, <<"b", "u", "y">>)

\* the message "What's my order status, I need help"
OrderStatusMessage ==
    <<"W", "h", "a", "t", "'", "s", " ", "m", "y", " ", "o", "r", "d", "e", "r", " ", "s", "t", "a", "t", "u", "s", ",", " ", "I", " ", "n", "e", "e", "d", " ", "h", "e", "l", "p">>

\* C10 as claimed: the message "What's my order status, I need help" is
\* classified needs_help.
C10_NeedsHelp ==
    (intent # "none" /\ message = OrderStatusMessage) => intent = "needs_help"

\* C10 as the classifier decides it: the message "What's my order status, I
\* need help" is classified purchase_intent; it holds no cart keyword and
\* holds the purchase keyword "order", which is tested before the browsing
\* keyword "need" and the help keywords "what" and "help" it also holds.
C10_PurchaseIntent ==
    (intent # "none" /\ message = OrderStatusMessage)
    => /\ intent = "purchase_intent"
       /\ 1 \notin MatchingRows(message)
       /\ MatchingRows(message) = {2, 3, 4}
       /\ MatchesCI(message, <<"o", "r", "d", "e", "r">>)

\* the message has been classified
C10_Witness ==
    /\ message = OrderStatusMessage
    /\ intent # "none"

---------------------------------------------------------------------------
(* Properties of the session rows *)

\* the step is a whole end_session request of the one caller
EndSessionStep ==
    /\ calls["c1"].pc = "idle"
    /\ calls'["c1"].pc = "done"
    /\ calls'["c1"].op = "end_session"

\* C14: no operation deletes a session row or changes its token: a row
\* that exists is still there after every step, under the same session_id,
\* so get_session(T) keeps returning a record with session_id = T; and
\* end_session changes nothing but is_active, which it sets to false, on the
\* row it names
C14_SessionKept ==
    [][/\ (\A t \in DOMAIN sessions :
              /\ t \in DOMAIN sessions'
              /\ sessions[t].session_id = t
              /\ sessions'[t].session_id = t)
        /\ (EndSessionStep =>
              /\ DOMAIN sessions' = DOMAIN sessions
              /\ \A u \in DOMAIN sessions :
                    sessions'[u] = IF u = calls'["c1"].session_id
                                   THEN [sessions[u] EXCEPT !.is_active = FALSE]
                                   ELSE sessions[u])]_vars

\* a session that was ended after it had collected messages and a cart, and
\* is still stored with all of them
C14_Witness ==
    /\ calls["c1"].pc = "done"
    /\ calls["c1"].op = "end_session"
    /\ calls["c1"].result = [ok |-> TRUE]
    /\ LET s == calls["c1"].session_id IN
         /\ SessionExists(s)
         /\ sessions[s].session_id = s
         /\ ~sessions[s].is_active
         /\ Len(sessions[s].messages) > 0
         /\ Len(sessions[s].cart) > 0

\* C15: after any sequence of add_to_cart with quantity > 0,
\* remove_from_cart, update_cart_quantity with any integer and clear_cart,
\* every line of every stored cart has a quantity of at least 1
C15_PositiveQuantities ==
    \A t \in DOMAIN sessions :
        \A i \in 1..Len(sessions[t].cart) :
            /\ sessions[t].cart[i].quantity \in Int
            /\ sessions[t].cart[i].quantity >= 1

\* update_cart_quantity was called with a quantity below 1 for a product
\* that had a line, and the stored cart has no line for it any more
C15_Witness ==
    /\ calls["c1"].pc = "done"
    /\ calls["c1"].op = "update_cart_quantity"
    /\ calls["c1"].quantity < 1
    /\ calls["c1"].found
    /\ SessionExists(calls["c1"].session_id)
    /\ FirstIndexOf(sessions[calls["c1"].session_id].cart, calls["c1"].product_id) = 0

\* the channel names of the specification
ChannelNames == {"web", "whatsapp", "instore", "mobile"}

\* C16: in every reachable state the channel of every session row is one
\* of web, whatsapp, instore and mobile, whatever channel arguments
\* create_session and switch_channel were called with
C16_ChannelInFixedSet ==
    \A t \in DOMAIN sessions : sessions[t].channel \in ChannelNames

---------------------------------------------------------------------------
(* Properties of the channel adapters *)

\* min(n, cap)
Min(a, b) == IF a < b THEN a ELSE b

\* the prices of the recommendations a payload renders, in payload order
\* (a recommendation of the inputs is identified by its price)
RenderedPrices(p) ==
    CASE p.channel = "web" ->
            LET l == Get(p, "product_cards", <<>>) IN [i \in 1..Len(l) |-> l[i].price]
      [] p.channel = "whatsapp" ->
            LET l == SelectSeq(p.text, LAMBDA x : x.part = "recommendation")
            IN [i \in 1..Len(l) |-> l[i].price]
      [] p.channel = "instore" ->
            LET l == Get(p, "product_tiles", <<>>) IN [i \in 1..Len(l) |-> l[i].price]
      [] p.channel = "mobile" ->
            LET l == Get(p, "horizontal_products", <<>>) IN [i \in 1..Len(l) |-> l[i].price]

\* the prices of the recommendations of the response
SuppliedPrices ==
    LET l == Get(ai_response, "recommendations", <<>>) IN [i \in 1..Len(l) |-> l[i].price]

\* C17: given a response with n recommendations, the web payload renders
\* the first min(n, 6) of them, the whatsapp payload the first min(n, 3),
\* the instore payload the first min(n, 4) and the mobile payload all n,
\* in input order
C17_RecommendationCaps ==
    \A c \in DOMAIN formatted :
        LET n == Len(SuppliedPrices)
            shown == CASE c = "web" -> Min(n, 6)
                       [] c = "whatsapp" -> Min(n, 3)
                       [] c = "instore" -> Min(n, 4)
                       [] c = "mobile" -> n
        IN RenderedPrices(formatted[c].payload) = SubSeq(SuppliedPrices, 1, shown)

\* ten recommendations were supplied and every channel has rendered them:
\* web 6, whatsapp 3, instore 4, mobile 10
C17_Witness ==
    /\ Len(SuppliedPrices) = 10
    /\ DOMAIN formatted = FormatChannels
    /\ Len(formatted["web"].payload.product_cards) = 6
    /\ Len(formatted["instore"].payload.product_tiles) = 4
    /\ Len(formatted["mobile"].payload.horizontal_products) = 10
    /\ Len(RenderedPrices(formatted["whatsapp"].payload)) = 3

RendersCart(p) ==
    \/ "cart_widget" \in DOMAIN p
    \/ "cart_sheet" \in DOMAIN p
    \/ "cart" \in DOMAIN p
    \/ "text" \in DOMAIN p /\ \E i \in 1..Len(p.text) : p.text[i].part = "cart"

\* a payload renders the action list: action buttons (web) or floating
\* action buttons (mobile)
RendersActions(p) ==
    \/ "action_buttons" \in DOMAIN p /\ Len(p.action_buttons) > 0
    \/ "fab_actions" \in DOMAIN p /\ Len(p.fab_actions) > 0
    \/ "actions" \in DOMAIN p
    \/ "text" \in DOMAIN p /\ \E i \in 1..Len(p.text) : p.text[i].part = "actions"

\* C19: for each of the four channels, when the response has a non-empty
\* cart and a non-empty action list, the payload of format_message contains
\* a rendering of the cart and a rendering of the action list
C19_CartAndActionsRendered ==
    \A c \in DOMAIN formatted :
        (/\ HasDict(ai_response, "cart")
         /\ ai_response.cart.cart_count > 0
         /\ HasList(ai_response, "actions"))
        => /\ RendersCart(formatted[c].payload)
           /\ RendersActions(formatted[c].payload)

---------------------------------------------------------------------------
(* Properties of the payment agent *)

\* C20: every failure result of PaymentAgent.execute (empty cart,
\* unsupported payment method, declined or failed payment, internal error)
\* carries an error_type together with a non-empty list of recovery options
\* or alternatives
C20_FailuresCarryRecovery ==
    (checkout.pc = "done" /\ ~checkout.result.success)
    => /\ "error_type" \in DOMAIN checkout.result
       /\ \/ HasList(checkout.result, "recovery_options")
          \/ HasList(checkout.result, "alternatives")

---------------------------------------------------------------------------
(* Properties of the orchestrator *)

\* the workers the turn has called so far
InvokedWorkers == {turn.invoked[i].worker : i \in 1..Len(turn.invoked)}

\* execute has returned and handle_conversation with it
Answered == turn.pc \in {"returned", "done"}

\* the envelope of the catch-all: success false, the apology, an error text
IsFallbackEnvelope(r) ==
    /\ DOMAIN r = {"success", "response", "error"}
    /\ r.success = FALSE
    /\ r.response = ApologyText

\* C11 as claimed: whatever step of a turn fails, no exception leaves
\* handle_conversation, and what it returns is the envelope with success
\* false, the apology text and the error string.
C11_NoFailureEscapes ==
    turn.failed # "none" =>
        /\ turn.pc # "raised"
        /\ Answered => IsFallbackEnvelope(turn.response)

\* the text a channel payload shows the customer
PayloadText(channel, p) ==
    CASE channel = "whatsapp" -> p.text[1].text
      [] channel = "instore" -> p.display_text
      [] OTHER -> p.message

\* C12 as claimed: when the pipeline of a turn failed, the payload
\* handle_channel_conversation produces carries the apology text as its
\* message (web, mobile), its text (whatsapp) or its display text (instore).
C12_PayloadCarriesApology ==
    (turn.pc = "done" /\ turn.channel # "none" /\ turn.failed # "none") =>
        PayloadText(turn.channel, turn.result) = ApologyText

\* a turn that SalesAgent classified purchase_intent and whose cart_items
\* list is empty
EmptyCartPurchase ==
    /\ turn.pc \notin {"idle", "raised", "analyze"}
    /\ DOMAIN turn.sales_response # {}
    /\ turn.sales_response.intent = "purchase_intent"
    /\ turn.context.cart_items = <<>>

\* C13: a turn classified purchase_intent with an empty cart_items list
\* calls neither the inventory worker nor the payment worker, and the
\* response execute returns has success true and no payment_result key; the
\* one other response is the envelope of the catch-all, returned when the
\* cart lookup of _synthesize_response raised.
C13_EmptyCartPurchase ==
    EmptyCartPurchase =>
        /\ InvokedWorkers \cap {"inventory", "payment"} = {}
        /\ "payment" \notin DOMAIN turn.worker_results
        /\ Answered =>
             /\ "payment_result" \notin DOMAIN turn.response
             /\ IF turn.failed = "none"
                THEN turn.response.success = TRUE
                ELSE turn.failed = "synthesis" /\ IsFallbackEnvelope(turn.response)

\* a purchase turn of a known customer with an empty cart was answered:
\* the loyalty worker ran, the response reports success
C13_Witness ==
    /\ EmptyCartPurchase
    /\ turn.pc = "done"
    /\ turn.failed = "none"
    /\ InvokedWorkers = {"loyalty"}
    /\ turn.response.success = TRUE
    /\ "loyalty_info" \in DOMAIN turn.response

\* the turn as it would stand had _call_ai returned a generated text
WithGeneratedReply ==
    [turn EXCEPT !.sales_response =
        SalesResponse(turn.context.message, GeneratedReply)]

\* C21: when the request to the language model failed, _call_ai returned
\* its "Error calling AI" text and the turn goes on as with a generated
\* text: nothing raised in the intent analysis, the intent, the required
\* workers and the next worker called are those of a generated text for the
\* same message, and the response execute returns has success true unless a
\* later step of the turn raised.
C21_AiFailureKeepsTurn ==
    turn.reply = AiErrorReply =>
        /\ turn.failed # "intent_analysis"
        /\ turn.sales_response.intent = WithGeneratedReply.sales_response.intent
        /\ turn.sales_response.requires_worker_agents
              = WithGeneratedReply.sales_response.requires_worker_agents
        /\ turn.pc \in {"recommendation", "inventory", "loyalty", "payment",
                        "view_cart", "synthesize"} =>
              /\ NextBlock(turn, turn.stage) = NextBlock(WithGeneratedReply, turn.stage)
              /\ turn.stage > 0 =>
                    /\ BlockCalls(WithGeneratedReply, turn.stage)
                    /\ Blocks(WithGeneratedReply.sales_response.intent)[turn.stage]
                          = turn.pc
        /\ (Answered /\ turn.failed = "none") => turn.response.success = TRUE

\* a browsing turn whose generation failed was answered with success, the
\* recommendation worker having run
C21_Witness ==
    /\ turn.reply = AiErrorReply
    /\ turn.pc = "done"
    /\ turn.failed = "none"
    /\ turn.sales_response.intent = "browsing"
    /\ "recommendation" \in InvokedWorkers
    /\ turn.response.success = TRUE
    /\ turn.response.message = AiErrorReply

\* the workers the dispatch table names for an intent
RequiredWorkers(intent_name) ==
    CASE intent_name = "browsing" -> {"recommendation", "inventory"}
      [] intent_name = "purchase_intent" -> {"inventory", "loyalty", "payment"}
      [] intent_name = "needs_help" -> {"inventory"}
      [] OTHER -> {}

\* C22 as claimed: the workers a turn calls are among the workers the
\* dispatch table names for the detected intent; a turn classified
\* view_cart, greeting, complaint or general calls no worker.
C22_OnlyRequiredWorkers ==
    DOMAIN turn.sales_response # {} =>
        /\ InvokedWorkers \subseteq RequiredWorkers(turn.sales_response.intent)
        /\ turn.sales_response.intent
              \in {"view_cart", "greeting", "complaint", "general"}
           => InvokedWorkers = {}

\* the order in which the handler of an intent calls its required workers
WorkerOrder(intent_name) ==
    CASE intent_name = "browsing" -> <<"recommendation", "inventory">>
      [] intent_name = "purchase_intent" -> <<"inventory", "loyalty", "payment">>
      [] OTHER -> <<>>

\* the position of a worker in a list of workers, 0 if it is not in it
PositionIn(worker, order) ==
    IF InList(worker, order)
    THEN CHOOSE i \in 1..Len(order) : order[i] = worker
    ELSE 0

\* the key under which a handler stores the result of a worker
ResultKey(worker) == IF worker = "recommendation" THEN "recommendations" ELSE worker

\* C23: the workers of a turn run one at a time in the order of the
\* intent's handler (browsing: recommendation, inventory; purchase:
\* inventory, loyalty, payment): each worker called has returned its result
\* before the next step, no worker is called twice, and on a browsing turn
\* the inventory worker is called only when the recommendation worker has
\* returned a list that is not empty, and on the product ids of the first
\* (at most 3) recommended items.
C23_WorkersInOrder ==
    DOMAIN turn.sales_response # {} =>
        LET order == WorkerOrder(turn.sales_response.intent)
            n == Len(turn.invoked)
        IN /\ \A i \in 1..n : ResultKey(turn.invoked[i].worker) \in DOMAIN turn.worker_results
           /\ \A i, j \in 1..n :
                 i < j =>
                   /\ turn.invoked[i].worker # turn.invoked[j].worker
                   /\ (InList(turn.invoked[i].worker, order)
                       /\ InList(turn.invoked[j].worker, order))
                      => PositionIn(turn.invoked[i].worker, order)
                           < PositionIn(turn.invoked[j].worker, order)
           /\ \A j \in 1..n :
                 (turn.sales_response.intent = "browsing"
                  /\ turn.invoked[j].worker = "inventory") =>
                    /\ \E i \in 1..(j - 1) : turn.invoked[i].worker = "recommendation"
                    /\ LET recommended ==
                              turn.worker_results["recommendations"].recommendations
                       IN /\ Len(recommended) > 0
                          /\ Len(turn.invoked[j].args) = Min(3, Len(recommended))
                          /\ \A k \in 1..Len(turn.invoked[j].args) :
                                turn.invoked[j].args[k] = recommended[k].product_id

\* a browsing turn in which the recommendation worker returned four items
\* and the inventory worker was then called on the first three
C23_Witness ==
    /\ DOMAIN turn.sales_response # {}
    /\ turn.sales_response.intent = "browsing"
    /\ Len(turn.invoked) >= 2
    /\ turn.invoked[1].worker = "recommendation"
    /\ turn.invoked[2].worker = "inventory"
    /\ Len(turn.worker_results["recommendations"].recommendations) = 4
    /\ Len(turn.invoked[2].args) = 3

\* the handler of the turn's intent has run to its end
HandlerReturned ==
    /\ turn.pc \in {"synthesize", "returned", "done"}
    /\ turn.failed \in {"none", "synthesis"}

\* the worker's result is among the results and reports a failure
WorkerFailed(worker) ==
    /\ ResultKey(worker) \in DOMAIN turn.worker_results
    /\ ~Get(turn.worker_results[ResultKey(worker)], "success", FALSE)

\* whether the handler of the turn's intent calls the worker of block k
\* when the workers before it succeed
WouldCall(k) ==
    LET intent_name == turn.sales_response.intent
        block == Blocks(intent_name)[k]
        required_agents == turn.sales_response.requires_worker_agents
    IN CASE intent_name = "browsing" /\ block = "inventory" ->
              InList("inventory", required_agents)
              /\ InList("recommendation", required_agents)
         [] intent_name = "browsing" ->
              handle_browsing_calls(block, turn.context, required_agents, <<>>)
         [] intent_name = "purchase_intent" ->
              handle_purchase_calls(block, turn.context, required_agents)
         [] intent_name = "needs_help" ->
              handle_help_calls(block, turn.context, required_agents)
         [] OTHER -> FALSE

\* the blocks of the turn's intent: 1..BlockCount
BlockCount ==
    IF DOMAIN turn.sales_response = {} THEN 0
    ELSE Len(Blocks(turn.sales_response.intent))

\* every result of a worker that reports a failure carries a message
FailuresCarryMessage ==
    \A key \in DOMAIN turn.worker_results :
        ~Get(turn.worker_results[key], "success", FALSE)
           => "message" \in DOMAIN turn.worker_results[key]

ResponseKey(worker) ==
    CASE worker = "recommendation" -> "recommendations"
      [] worker = "inventory" -> "inventory_status"
      [] worker = "loyalty" -> "loyalty_info"
      [] OTHER -> "payment_result"

\* C25 as claimed: the response synthesized for a turn reports every worker
\* that ran: the data of a worker that succeeded, and for a worker that
\* failed its record with success false.
C25_FailedWorkerReported ==
    (Answered /\ turn.failed = "none") =>
        \A worker \in InvokedWorkers :
            /\ ResponseKey(worker) \in DOMAIN turn.response
            /\ WorkerFailed(worker) =>
                 turn.response[ResponseKey(worker)]
                    = turn.worker_results[ResultKey(worker)]

\* C26 as claimed: when the inventory worker ran and succeeded, the
\* inventory_status of the response is the availability map the worker
\* returned.
C26_InventoryStatusIsAvailability ==
    (Answered /\ turn.failed = "none" /\ Succeeded(turn.worker_results, "inventory")) =>
        /\ "inventory_status" \in DOMAIN turn.response
        /\ DOMAIN turn.response.inventory_status
              = DOMAIN turn.worker_results.inventory.availability
        /\ \A product_id \in DOMAIN turn.worker_results.inventory.availability :
              turn.response.inventory_status[product_id]
                 = turn.worker_results.inventory.availability[product_id]

---------------------------------------------------------------------------
(* Properties of concurrent session mutations *)

\* caller p takes the step that calls update_session on an existing row
WritesRow(p) ==
    /\ calls[p].pc = "write"
    /\ calls'[p].pc = "done"
    /\ calls[p].session_id \in DOMAIN sessions

CartOps == {"add_to_cart", "remove_from_cart", "update_cart_quantity"}

\* C27 as claimed: the write of every session mutation stores the whole
\* row as the call read it, with the call's own change: the write of a
\* switch_channel or of an add_message stores the cart the call read, so a
\* cart line added by another caller in between is discarded.
C27_WholeRowWrittenBack ==
    [][\A p \in Callers :
          WritesRow(p) =>
             sessions'[calls[p].session_id].cart
                = IF calls[p].op \in CartOps THEN calls[p].cart ELSE calls[p].read]_vars

\* C27 amended: the write of a session mutation stores the one field the
\* call changed and leaves the other fields of the row as they are stored
\* at that moment.  A cart mutation stores the cart it computed from the
\* cart it read, so the lines another caller's add_to_cart wrote in between
\* are discarded; a switch_channel or an add_message keeps them.
C27_OnlyChangedFieldWritten ==
    [][\A p \in Callers :
          WritesRow(p) =>
             LET c == calls[p]
                 old == sessions[c.session_id]
                 new == sessions'[c.session_id]
             IN /\ c.op \in CartOps =>
                     /\ new = [old EXCEPT !.cart = c.cart]
                     /\ \A lost \in c.overtaken_adds \ {c.product_id} :
                           LinesOf(new.cart, lost) = LinesOf(c.read, lost)
                /\ c.op = "switch_channel" =>
                     /\ new = [old EXCEPT !.channel = c.channel]
                     /\ \A kept \in c.overtaken_adds : LinesOf(new.cart, kept) # {}
                /\ c.op = "add_message" =>
                     /\ new = [old EXCEPT !.messages = c.messages]
                     /\ \A kept \in c.overtaken_adds : LinesOf(new.cart, kept) # {}]_vars

\* a switch_channel read the row, another caller's add_to_cart was written,
\* then the switch_channel wrote: the row has the new channel and the line
C27_Witness ==
    \E p, q \in Callers :
        /\ p # q
        /\ calls[p].pc = "done" /\ calls[p].op = "switch_channel"
        /\ calls[p].overtaken_adds = {1}
        /\ calls[p].session_id \in DOMAIN sessions
        /\ sessions[calls[p].session_id].channel = "whatsapp"
        /\ calls[p].channel = "whatsapp"
        /\ calls[p].result.cart_items = 0
        /\ LinesOf(sessions[calls[p].session_id].cart, 1) # {}

---------------------------------------------------------------------------
(* Properties of the turn and the session row *)

\* C28 as claimed: when a turn for an existing session has been processed
\* with no step failing, the row of the session has been updated with the
\* turn: its message log, empty before the turn, holds the messages of the
\* turn.
C28_TurnRecordedInSession ==
    (/\ turn.pc = "done"
     /\ turn.failed = "none"
     /\ turn.context.session_id \in DOMAIN sessions) =>
        Len(sessions[turn.context.session_id].messages) > 0
---------------------------------------------------------------------------
(* Properties of the pricing of a checkout *)

\* a checkout has returned a result that carries its pricing
Priced == checkout.pc = "done" /\ "pricing" \in DOMAIN checkout.result

\* C29 as claimed: in every pricing _calculate_pricing returns, the
\* discounts together do not exceed the subtotal, and neither the tax nor
\* the final total is negative.
C29_DiscountsWithinSubtotal ==
    Priced =>
        LET pricing == checkout.result.pricing
        IN /\ pricing.total_discount <= pricing.subtotal
           /\ pricing.tax >= 0
           /\ pricing.final_total >= 0

---------------------------------------------------------------------------
(* Properties of the ranking of recommendations *)

\* C30: whatever text the generation service returns, the list
\* _generate_smart_recommendations returns is the fallback list built from
\* the first three products (all of them when there are fewer).
C30_AlwaysFallback ==
    smart.pc = "done" =>
        smart.result = fallback_recommendations(Take(smart.products, 3))

\* the service answered as it was asked to, with a JSON array of one
\* recommendation that names a product of the list, and the list of
\* products has more than three entries
C30_Witness ==
    /\ smart.pc = "done"
    /\ smart.text = <<"[", "{", PairToken, "}", "]">>
    /\ Len(smart.products) > 3
    /\ \E i \in 1..Len(smart.products) : smart.products[i] = 2

====
